---- MODULE Spec2Model ----
(***************************************************************************)
(* Monthly traffic report: section detection, metrics calculation and      *)
(* write-back of one multi-section sheet, as a state machine.              *)
(*                                                                         *)
(* Text is a sequence of one-character strings, so that the substring,     *)
(* case-folding and trimming tests of the source are computed, not         *)
(* assumed.  Numbers are integers counted in hundredths (10 is 1000), so   *)
(* that a percentage rounded to two decimals is an integer.                *)
(***************************************************************************)
EXTENDS Integers, Sequences, FiniteSets, TLC

\* ------------------------------------------------------------------ text

p_month == <<"m", "o", "n", "t", "h">>
p_total == <<"t", "o", "t", "a", "l">>
p_pct_change == <<"%", " ", "c", "h", "a", "n", "g", "e">>
p_pctchange == <<"%", "c", "h", "a", "n", "g", "e">>
p_upward == <<"u", "p", "w", "a", "r", "d">>
p_decline == <<"d", "e", "c", "l", "i", "n", "e">>
p_declined == <<"d", "e", "c", "l", "i", "n", "e", "d">>
p_visits == <<"v", "i", "s", "i", "t", "s">>
p_year == <<"y", "e", "a", "r">>
p_yoy == <<"y", "o", "y">>
p_lm == <<"l", "m">>
p_december == <<"d", "e", "c", "e", "m", "b", "e", "r">>
p_january == <<"j", "a", "n", "u", "a", "r", "y">>
p_2023 == <<"2", "0", "2", "3">>
p_2024 == <<"2", "0", "2", "4">>
p_2025 == <<"2", "0", "2", "5">>
p_year_dash_2023 == <<"y", "e", "a", "r", "-", "2", "0", "2", "3">>
p_year_sp_2023 == <<"y", "e", "a", "r", " ", "2", "0", "2", "3">>
p_year_dash_2024 == <<"y", "e", "a", "r", "-", "2", "0", "2", "4">>
p_year_sp_2024 == <<"y", "e", "a", "r", " ", "2", "0", "2", "4">>
p_year_dash_2025 == <<"y", "e", "a", "r", "-", "2", "0", "2", "5">>
p_year_sp_2025 == <<"y", "e", "a", "r", " ", "2", "0", "2", "5">>
p_jan == <<"j", "a", "n">>
p_feb == <<"f", "e", "b">>
p_march == <<"m", "a", "r", "c", "h">>
p_april == <<"a", "p", "r", "i", "l">>
p_may == <<"m", "a", "y">>
p_june == <<"j", "u", "n", "e">>
p_july == <<"j", "u", "l", "y">>
p_aug == <<"a", "u", "g">>
p_inf == <<"i", "n", "f">>
w_Column_ == <<"C", "o", "l", "u", "m", "n", "_">>
w_YOY_pct == <<"Y", "O", "Y", " ", "%">>
w_LM_pct == <<"L", "M", " ", "%">>
w_YOY_2024_2025 == <<"Y", "O", "Y", " ", "%", " ", "(", "2", "0", "2", "4", "-", "2", "0", "2", "5", ")">>
w_LM_2025 == <<"L", "M", " ", "%", " ", "(", "2", "0", "2", "5", ")">>
\* variant: a label the row locator does not recognise
w_ChangeOnly == <<"C", "h", "a", "n", "g", "e">>
w_PctChange == <<"%", " ", "C", "h", "a", "n", "g", "e">>
w_till_Aug == <<"%", " ", "(", "t", "i", "l", "l", " ", "A", "u", "g", ")">>
w_pct == <<"%">>
w_SummaryHeader == <<"S", "u", "m", "m", "a", "r", "y", " ", "/", " ", "I", "n", "s", "i", "g", "h", "t", "s", " ", ":">>
w_NoTraffic_pre == <<"N", "o", " ", "m", "e", "a", "s", "u", "r", "a", "b", "l", "e", " ", "t", "r", "a", "f", "f", "i", "c", " ", "w", "a", "s", " ", "r", "e", "c", "o", "r", "d", "e", "d", " ", "i", "n", " ">>
w_NoTraffic_post == <<" ", "d", "u", "r", "i", "n", "g", " ", "t", "h", "e", " ", "a", "n", "a", "l", "y", "z", "e", "d", " ", "p", "e", "r", "i", "o", "d", ".">>
w_Generic_pre == <<"A", "n", "a", "l", "y", "s", "i", "s", " ", "o", "f", " ">>
w_Generic_post == <<" ", "m", "e", "t", "r", "i", "c", "s", " ", "s", "h", "o", "w", "s", " ", "v", "a", "r", "y", "i", "n", "g", " ", "p", "a", "t", "t", "e", "r", "n", "s", " ", "a", "c", "r", "o", "s", "s", " ", "t", "h", "e", " ", "r", "e", "p", "o", "r", "t", "i", "n", "g", " ", "p", "e", "r", "i", "o", "d", ".", " ", "F", "u", "r", "t", "h", "e", "r", " ", "i", "n", "v", "e", "s", "t", "i", "g", "a", "t", "i", "o", "n", " ", "r", "e", "c", "o", "m", "m", "e", "n", "d", "e", "d", ".">>
t_Organic == <<"O", "r", "g", "a", "n", "i", "c">>
t_Paid == <<"P", "a", "i", "d">>
t_Month == <<"M", "o", "n", "t", "h">>
t_Year2023 == <<"Y", "e", "a", "r", "-", "2", "0", "2", "3">>
t_Year2024 == <<"Y", "e", "a", "r", "-", "2", "0", "2", "4">>
t_Year2025 == <<"Y", "e", "a", "r", "-", "2", "0", "2", "5">>
t_YOYshort == <<"Y", "O", "Y", "%">>
t_LMshort == <<"L", "M", "%">>
t_January == <<"J", "a", "n", "u", "a", "r", "y">>
t_February == <<"F", "e", "b", "r", "u", "a", "r", "y">>
t_March == <<"M", "a", "r", "c", "h">>
t_April == <<"A", "p", "r", "i", "l">>
t_May == <<"M", "a", "y">>
t_June == <<"J", "u", "n", "e">>
t_July == <<"J", "u", "l", "y">>
t_August == <<"A", "u", "g", "u", "s", "t">>
t_December == <<"D", "e", "c", "e", "m", "b", "e", "r">>
t_Total == <<"T", "o", "t", "a", "l">>
t_PctChange == <<"%", " ", "C", "h", "a", "n", "g", "e">>
t_TotalPadded == <<" ", "T", "O", "T", "A", "L", " ">>
t_month_lower == <<"m", "o", "n", "t", "h">>
t_upward == <<"u", "p", "w", "a", "r", "d">>
t_UPWARD == <<"U", "P", "W", "A", "R", "D">>
t_upwards == <<"u", "p", "w", "a", "r", "d", "s">>
t_declined == <<"d", "e", "c", "l", "i", "n", "e", "d">>
t_Decline == <<"D", "e", "c", "l", "i", "n", "e">>
t_declining == <<"d", "e", "c", "l", "i", "n", "i", "n", "g">>
t_steady == <<"s", "t", "e", "a", "d", "y">>
t_Note == <<"N", "o", "t", "e">>
t_na == <<"n", "/", "a">>
t_ten == <<"1", "0">>

t_llm_up == <<"T", "r", "a", "f", "f", "i", "c", " ", "t", "r", "e", "n", "d", "e", "d", " ", "u", "p", "w", "a", "r", "d", ".">>
t_llm_down == <<"S", "e", "s", "s", "i", "o", "n", "s", " ", "d", "e", "c", "l", "i", "n", "e", "d", ".">>

UpperAlpha == <<"A","B","C","D","E","F","G","H","I","J","K","L","M","N","O","P","Q","R","S","T","U","V","W","X","Y","Z">>
LowerAlpha == <<"a","b","c","d","e","f","g","h","i","j","k","l","m","n","o","p","q","r","s","t","u","v","w","x","y","z">>
DigitChars == <<"0","1","2","3","4","5","6","7","8","9">>

\* largest / smallest element of a finite set of positions, 0 when empty
SetMax(S) == IF S = {} THEN 0 ELSE CHOOSE x \in S : \A y \in S : y <= x
SetMin(S) == IF S = {} THEN 0 ELSE CHOOSE x \in S : \A y \in S : x <= y

\* str.lower() on one character
UpperSet == {UpperAlpha[i] : i \in 1..Len(UpperAlpha)}
LowerTable ==
  [c \in UpperSet |-> LowerAlpha[CHOOSE i \in 1..Len(UpperAlpha) : UpperAlpha[i] = c]]
LowerChar(c) == IF c \in UpperSet THEN LowerTable[c] ELSE c

\* str.lower()
Lower(s) == [i \in 1..Len(s) |-> LowerChar(s[i])]

\* str.strip(), for the blank character
RECURSIVE LStrip(_)
LStrip(s) == IF s # <<>> /\ Head(s) = " " THEN LStrip(Tail(s)) ELSE s
RECURSIVE RStrip(_)
RStrip(s) == IF s # <<>> /\ s[Len(s)] = " " THEN RStrip(SubSeq(s, 1, Len(s) - 1)) ELSE s
Strip(s) == RStrip(LStrip(s))

\* sub in s
Contains(s, sub) ==
  \E i \in 0..(Len(s) - Len(sub)) : SubSeq(s, i + 1, i + Len(sub)) = sub

\* s.endswith(sub)
EndsWith(s, sub) ==
  Len(s) >= Len(sub) /\ SubSeq(s, Len(s) - Len(sub) + 1, Len(s)) = sub

IsDigit(c) == \E i \in 1..Len(DigitChars) : DigitChars[i] = c
DigitVal(c) == (CHOOSE i \in 1..Len(DigitChars) : DigitChars[i] = c) - 1

\* str(n) of a natural number
RECURSIVE NatToChars(_)
NatToChars(n) ==
  IF n < 10 THEN <<DigitChars[n + 1]>>
  ELSE NatToChars(n \div 10) \o <<DigitChars[(n % 10) + 1]>>

\* int(s) of a digit string
RECURSIVE CharsToNat(_)
CharsToNat(s) ==
  IF s = <<>> THEN 0
  ELSE 10 * CharsToNat(SubSeq(s, 1, Len(s) - 1)) + DigitVal(s[Len(s)])

\* ---------------------------------------------------------------- values

\* A cell value or a float: absent (None / NaN), a finite number in
\* hundredths, +inf, -inf, or text.
NoneV == [t |-> "none", n |-> 0, s |-> <<>>]
Num(h) == [t |-> "num", n |-> h, s |-> <<>>]
PosInf == [t |-> "inf", n |-> 0, s |-> <<>>]
NegInf == [t |-> "ninf", n |-> 0, s |-> <<>>]
Txt(s) == [t |-> "text", n |-> 0, s |-> s]
\* a whole number of units
N(u) == Num(u * 100)

\* pd.isna / value is None
IsNa(v) == v.t = "none"
\* Python truthiness of a cell value: None, 0 and "" are false
Truthy(v) ==
  CASE v.t = "none" -> FALSE
    [] v.t = "num" -> v.n # 0
    [] v.t = "text" -> v.s # <<>>
    [] OTHER -> TRUE
IsStr(v) == v.t = "text"
IsFinite(v) == v.t = "num"
\* str(value) of a label or header cell
Str(v) ==
  CASE v.t = "text" -> v.s
    [] v.t = "num" /\ v.n >= 0 /\ v.n % 100 = 0 -> NatToChars(v.n \div 100)
    [] OTHER -> <<"N", "o", "n", "e">>

\* pd.to_numeric(value, errors='coerce')
ToNumeric(v) ==
  CASE v.t = "text" ->
         LET s == Strip(v.s) IN
         IF s # <<>> /\ \A i \in 1..Len(s) : IsDigit(s[i]) THEN N(CharsToNat(s))
         ELSE IF Lower(s) = p_inf THEN PosInf
         ELSE NoneV
    [] OTHER -> v

\* ------------------------------------------------------ float arithmetic

Sign(v) == CASE v.t = "inf" -> 1 [] v.t = "ninf" -> -1
             [] v.t = "num" -> (IF v.n > 0 THEN 1 ELSE IF v.n < 0 THEN -1 ELSE 0)
             [] OTHER -> 0

\* a - b
FSub(a, b) ==
  CASE IsNa(a) \/ IsNa(b) -> NoneV
    [] a.t = "num" /\ b.t = "num" -> Num(a.n - b.n)
    [] a.t = "num" -> (IF b.t = "inf" THEN NegInf ELSE PosInf)
    [] b.t = "num" -> a
    [] OTHER -> (IF a.t = b.t THEN NoneV ELSE a)

\* a + b
FAdd(a, b) ==
  CASE IsNa(a) \/ IsNa(b) -> NoneV
    [] a.t = "num" /\ b.t = "num" -> Num(a.n + b.n)
    [] a.t = "num" -> b
    [] b.t = "num" -> a
    [] OTHER -> (IF a.t = b.t THEN a ELSE NoneV)

\* a > 0, a <= 0 (both false on NaN)
GtZero(a) == ~IsNa(a) /\ Sign(a) > 0
LeZero(a) == ~IsNa(a) /\ Sign(a) <= 0

\* a / b rounded to the nearest integer, ties to even; b > 0
RoundHalfEven(a, b) ==
  LET q == a \div b
      r == a % b
  IN  IF 2 * r < b THEN q
      ELSE IF 2 * r > b THEN q + 1
      ELSE IF q % 2 = 0 THEN q ELSE q + 1

\* (numerator / denominator) * 100 as a float: NaN, +-inf, or the exact
\* ratio kept as a pair (hundredths of a percent are num * 10000 / den)
PctKind(numerator, denominator) ==
  CASE numerator.t = "num" /\ denominator.t = "num" -> "finite"
    [] numerator.t = "num" -> "zero"
    [] denominator.t = "num" -> "infinite"
    [] OTHER -> "nan"

\* round(x, 2) of the finite ratio, in hundredths
RoundedPct(num, den) ==
  IF den > 0 THEN RoundHalfEven(num * 10000, den)
  ELSE RoundHalfEven((0 - num) * 10000, 0 - den)

\* -------------------------------------------------- guarded percentages

\* variant: the percentage returned without the test for inf and NaN
safe_percentage_unchecked(numerator, denominator) ==
  IF IsNa(denominator) \/ (denominator.t = "num" /\ denominator.n = 0) THEN NoneV
  ELSE IF IsNa(numerator) THEN NoneV
  ELSE CASE PctKind(numerator, denominator) = "finite" ->
              Num(RoundedPct(numerator.n, denominator.n))
         [] PctKind(numerator, denominator) = "zero" -> Num(0)
         [] PctKind(numerator, denominator) = "infinite" ->
              (IF Sign(numerator) * Sign(denominator) < 0 THEN NegInf ELSE PosInf)
         [] OTHER -> [t |-> "nan", n |-> 0, s |-> <<>>]

\* excel_utils.safe_percentage_calculation
safe_percentage_calculation(numerator, denominator) ==
  IF IsNa(denominator) \/ (denominator.t = "num" /\ denominator.n = 0) THEN NoneV
  ELSE IF IsNa(numerator) THEN NoneV
  ELSE CASE PctKind(numerator, denominator) = "finite" ->
              Num(RoundedPct(numerator.n, denominator.n))
         [] PctKind(numerator, denominator) = "zero" -> Num(0)
         [] OTHER -> NoneV

\* variant: YOY without the test value_2024 <= 0
calculate_yoy_any_base(value_2024, value_2025) ==
  IF IsNa(value_2024) \/ IsNa(value_2025) THEN NoneV
  ELSE safe_percentage_calculation(FSub(value_2025, value_2024), value_2024)

\* excel_utils.calculate_yoy_percentage
calculate_yoy_percentage(value_2024, value_2025) ==
  IF IsNa(value_2024) \/ IsNa(value_2025) THEN NoneV
  ELSE IF LeZero(value_2024) THEN NoneV
  ELSE safe_percentage_calculation(FSub(value_2025, value_2024), value_2024)

\* excel_utils.calculate_lm_percentage
calculate_lm_percentage(current_value, previous_value) ==
  IF IsNa(current_value) \/ IsNa(previous_value) THEN NoneV
  ELSE IF LeZero(previous_value) THEN NoneV
  ELSE safe_percentage_calculation(FSub(current_value, previous_value), previous_value)

\* f"{x:.2f}" of a number given by its sign and its magnitude in hundredths
Fixed2(negative, h) ==
  (IF negative THEN <<"-">> ELSE <<>>)
    \o NatToChars(h \div 100) \o <<".">>
    \o <<DigitChars[((h % 100) \div 10) + 1], DigitChars[(h % 10) + 1]>>

\* f"{value:.2f}" of a float
FormatFloat2(value) ==
  CASE value.t = "num" -> Fixed2(value.n < 0, IF value.n < 0 THEN 0 - value.n ELSE value.n)
    [] value.t = "inf" -> <<"i", "n", "f">>
    [] value.t = "ninf" -> <<"-", "i", "n", "f">>
    [] OTHER -> <<"n", "a", "n">>

\* the format specification 'f' applied to a str raises ValueError
FormatRaises(value) == value.t = "text"

\* excel_utils.format_percentage_for_excel (value is not a str)
format_percentage_for_excel(value) ==
  IF value.t = "none" THEN Txt(<<>>)
  ELSE Txt(FormatFloat2(value) \o w_pct)

\* ------------------------------------------------------------------ state

VARIABLES
  pc,                     \* the node the harness runs next
  input_file,             \* the sheet stored at the input path
  worksheet,              \* the sheet in memory (state['worksheet'])
  max_row,                \* worksheet.max_row
  max_column,             \* worksheet.max_column
  keeps_input_path,       \* whether state['input_path'] survives the harness
  sections,               \* state['sections']
  current_section_index,  \* state['current_section_index']
  section_name,           \* state['section_name']
  section_info,           \* state['section_info']
  section_dataframe,      \* state['section_dataframe']
  calculated_metrics,     \* state['calculated_metrics']
  summary_text,           \* state['summary_text']
  err,                    \* the exception that ended the run, if any
  saves,                  \* how many times the workbook was saved
  log,                    \* the nodes run so far, with the section index of each
  llm_errors,             \* per narrative request made, whether it raised
  probe                   \* the arguments and results of a direct call of the
                          \* percentage helpers (excel_utils), outside the pipeline

vars == <<pc, input_file, worksheet, max_row, max_column, keeps_input_path,
          sections, current_section_index, section_name, section_info,
          section_dataframe, calculated_metrics, summary_text, err, saves, log, llm_errors,
          probe>>

\* no direct call of the percentage helpers
NoProbe == [called |-> FALSE, current |-> NoneV, previous |-> NoneV,
            yoy |-> NoneV, lm |-> NoneV]

\* ------------------------------------------------------------------- grid

\* width of the modelled sheet: every column the writer addresses exists
GridCols == 20

\* worksheet.cell(r, c).value
Cell(ws, r, c) ==
  IF r \in DOMAIN ws /\ c \in DOMAIN ws[r] THEN ws[r][c] ELSE NoneV

\* worksheet.cell(r, c).value = v
SetCell(ws, r, c, v) ==
  IF r \in DOMAIN ws /\ c \in DOMAIN ws[r] THEN [ws EXCEPT ![r][c] = v] ELSE ws

EmptyRow == [c \in 1..GridCols |-> NoneV]

\* ---------------------------------------------------------------- scanner

\* variant of the row test without the reserved words
IsSectionHeaderAnyName(ws, mc, row_idx) ==
  LET col_a_value == Cell(ws, row_idx, 1)
      col_b_value == IF mc > 1 THEN Cell(ws, row_idx, 2) ELSE NoneV
  IN  /\ Truthy(col_a_value)
      /\ Truthy(col_b_value)
      /\ Lower(Strip(Str(col_b_value))) = p_month

\* section_detector_agent.detect_sections, the test of one row (lines 41-62)
IsSectionHeader(ws, mc, row_idx) ==
  LET col_a_value == Cell(ws, row_idx, 1)
      col_a_str == Strip(Str(col_a_value))
      col_b_value == IF mc > 1 THEN Cell(ws, row_idx, 2) ELSE NoneV
  IN  /\ Truthy(col_a_value)
      /\ Lower(col_a_str) \notin {p_month, p_total, p_pct_change, p_pctchange}
      /\ Truthy(col_b_value)
      /\ Lower(Strip(Str(col_b_value))) = p_month

\* the first loop of detect_sections (lines 40-63): rows row_idx..mr
RECURSIVE ScanRows(_, _, _, _)
ScanRows(ws, mc, mr, row_idx) ==
  IF row_idx > mr THEN <<>>
  ELSE (IF IsSectionHeader(ws, mc, row_idx)
        THEN <<[name |-> Strip(Str(Cell(ws, row_idx, 1))),
                header_row |-> row_idx,
                data_start_row |-> row_idx + 1]>>
        ELSE <<>>) \o ScanRows(ws, mc, mr, row_idx + 1)

\* section_detector_agent.detect_sections
detect_sections(ws, mc, mr) ==
  LET found == ScanRows(ws, mc, mr, 1)
  IN  [i \in 1..Len(found) |->
         [name |-> found[i].name,
          header_row |-> found[i].header_row,
          data_start_row |-> found[i].data_start_row,
          data_end_row |-> IF i < Len(found) THEN found[i + 1].header_row - 1
                           ELSE mr]]

\* ----------------------------------------------------------------- tables

\* A DataFrame: column labels, rows of values (one per label), and the
\* totals attached by the metrics engine.  NoDataFrame is Python's None.
NoDataFrame ==
  [none |-> TRUE, columns |-> <<>>, rows |-> <<>>,
   total_2024 |-> NoneV, total_2025 |-> NoneV]
DataFrame(columns, rows) ==
  [none |-> FALSE, columns |-> columns, rows |-> rows,
   total_2024 |-> NoneV, total_2025 |-> NoneV]

\* position of the column labelled name, 0 when there is none
ColIndex(df, name) ==
  SetMin({i \in 1..Len(df.columns) : df.columns[i] = name})

\* df[name] = None where the column is new; the table is unchanged otherwise
WithColumn(df, name) ==
  IF ColIndex(df, name) # 0 THEN df
  ELSE [df EXCEPT !.columns = Append(@, name),
                  !.rows = [i \in 1..Len(df.rows) |-> Append(df.rows[i], NoneV)]]

\* df[name] = None
SetColumnNone(df, name) ==
  LET d == WithColumn(df, name)
      k == ColIndex(d, name)
  IN  [d EXCEPT !.rows = [i \in 1..Len(d.rows) |-> [d.rows[i] EXCEPT ![k] = NoneV]]]

\* -------------------------------------------------------------- extractor

\* section_detector_agent.extract_section_data, lines 92-100
HeaderLabels(ws, mc, header_row_idx) ==
  [i \in 1..(mc - 1) |->
     IF Truthy(Cell(ws, header_row_idx, i + 1))
     THEN Strip(Str(Cell(ws, header_row_idx, i + 1)))
     ELSE w_Column_ \o NatToChars(i + 1)]

\* row_data of one sheet row: columns B .. len(headers)+1
RowData(ws, mc, row_idx) == [i \in 1..(mc - 1) |-> Cell(ws, row_idx, i + 1)]

\* any(row_data)
AnyTruthy(row_data) == \E i \in 1..Len(row_data) : Truthy(row_data[i])

\* the row loop of extract_section_data (lines 105-117): the sheet rows kept
RECURSIVE ReadRows(_, _, _, _)
ReadRows(ws, mc, row_idx, data_end_row) ==
  IF row_idx > data_end_row THEN <<>>
  ELSE IF ~AnyTruthy(RowData(ws, mc, row_idx)) THEN <<>>
  ELSE (IF Truthy(RowData(ws, mc, row_idx)[1]) THEN <<row_idx>> ELSE <<>>)
         \o ReadRows(ws, mc, row_idx + 1, data_end_row)

\* the '% change|%change' test of line 131 on one first field
IsPctChangeText(v) ==
  \/ Contains(Lower(Str(v)), p_pct_change)
  \/ Contains(Lower(Str(v)), p_pctchange)

\* section_detector_agent.extract_section_data
extract_section_data(ws, mc, info) ==
  LET headers == HeaderLabels(ws, mc, info.header_row)
      kept == ReadRows(ws, mc, info.data_start_row, info.data_end_row)
      data_rows == [i \in 1..Len(kept) |-> RowData(ws, mc, kept[i])]
      month_at == {i \in 1..Len(headers) : headers[i] = t_Month}
      month_idx == IF month_at # {} THEN SetMin(month_at) ELSE 1
      NotChange(row) == ~IsPctChangeText(row[month_idx])
      NotAllNa(row) == \E i \in 1..Len(row) : ~IsNa(row[i])
      Keep(row) == NotChange(row) /\ NotAllNa(row)
  IN  IF Len(data_rows) > 0 /\ Len(headers) > 0
      THEN DataFrame(headers, SelectSeq(data_rows, Keep))
      ELSE DataFrame(headers, data_rows)

\* ---------------------------------------------------------- metrics engine

\* excel_utils.is_skip_row
is_skip_row(row_data) ==
  \/ IsNa(row_data[1])
  \/ Contains(Lower(Strip(Str(row_data[1]))), p_pct_change)
  \/ Contains(Lower(Strip(Str(row_data[1]))), p_pctchange)

\* the year a column label is matched to by identify_year_columns, lines 50-58
YearOfLabel(col) ==
  LET col_str == Lower(col)
      Is(dash, sp, yr) ==
        Contains(col_str, dash) \/ Contains(col_str, sp) \/ EndsWith(col_str, yr)
  IN  IF Is(p_year_dash_2023, p_year_sp_2023, p_2023) THEN "2023"
      ELSE IF Is(p_year_dash_2024, p_year_sp_2024, p_2024) THEN "2024"
      ELSE IF Is(p_year_dash_2025, p_year_sp_2025, p_2025) THEN "2025"
      ELSE "none"

\* metrics_calculator_agent.identify_year_columns: year -> position of the
\* last column matched to it (0: none)
identify_year_columns(df) ==
  LET year_of == [i \in 1..Len(df.columns) |-> YearOfLabel(df.columns[i])]
  IN  [y \in {"2023", "2024", "2025"} |->
         SetMax({i \in 1..Len(df.columns) : year_of[i] = y})]

\* list(year_cols.values()): the matched columns in the order their years
\* were first met
FirstMatch(df, y) ==
  SetMin({i \in 1..Len(df.columns) : YearOfLabel(df.columns[i]) = y})
RECURSIVE YearValuesFrom(_, _, _)
YearValuesFrom(df, year_cols, i) ==
  IF i > Len(df.columns) THEN <<>>
  ELSE (IF YearOfLabel(df.columns[i]) # "none" /\ FirstMatch(df, YearOfLabel(df.columns[i])) = i
        THEN <<year_cols[YearOfLabel(df.columns[i])]>> ELSE <<>>)
         \o YearValuesFrom(df, year_cols, i + 1)
YearColumnList(df, year_cols) == YearValuesFrom(df, year_cols, 1)

\* excel_utils.is_section_empty
is_section_empty(df, year_columns) ==
  LET Is2024(col_str) == Contains(col_str, p_2024)
      Is2025(col_str) == ~Contains(col_str, p_2024) /\ Contains(col_str, p_2025)
      hits_2024 == {k \in 1..Len(year_columns) :
                      Is2024(Lower(df.columns[year_columns[k]]))}
      hits_2025 == {k \in 1..Len(year_columns) :
                      Is2025(Lower(df.columns[year_columns[k]]))}
      col_2024 == IF hits_2024 # {} THEN year_columns[SetMax(hits_2024)] ELSE 0
      col_2025 == IF hits_2025 # {} THEN year_columns[SetMax(hits_2025)] ELSE 0
      Valid(row) ==
        /\ ~IsNa(ToNumeric(row[col_2024]))
        /\ ~IsNa(ToNumeric(row[col_2025]))
        /\ GtZero(ToNumeric(row[col_2024]))
  IN  IF col_2024 = 0 \/ col_2025 = 0 THEN TRUE
      ELSE ~\E i \in 1..Len(df.rows) : Valid(df.rows[i])

\* the test of lines 131 and 184
IsTotalRow(row) == ~IsNa(row[1]) /\ Contains(Lower(Str(row[1])), p_total)

\* the column the engine takes for YOY (lines 102-111): the last label with
\* "yoy", "2024" and "2025", else the default label
IsYoyLabel(col_str) ==
  Contains(col_str, p_yoy) /\ Contains(col_str, p_2024) /\ Contains(col_str, p_2025)
IsLmLabel(col_str) ==
  ~IsYoyLabel(col_str) /\ Contains(col_str, p_lm) /\ Contains(col_str, p_2025)
EngineYoyCol(df) ==
  LET hits == {i \in 1..Len(df.columns) : IsYoyLabel(Lower(df.columns[i]))}
  IN  IF hits # {} THEN df.columns[SetMax(hits)] ELSE w_YOY_2024_2025
EngineLmCol(df) ==
  LET hits == {i \in 1..Len(df.columns) : IsLmLabel(Lower(df.columns[i]))}
  IN  IF hits # {} THEN df.columns[SetMax(hits)] ELSE w_LM_2025

\* the YOY value of one row (lines 124-151)
YoyOfRow(row, old, col_2024, col_2025) ==
  IF is_skip_row(row) THEN old
  ELSE IF IsTotalRow(row) THEN NoneV
  ELSE calculate_yoy_percentage(ToNumeric(row[col_2024]), ToNumeric(row[col_2025]))

\* December's value in the 2024 column (lines 164-175): the first row whose
\* first field contains "december"
DecemberValue(df, col_2024) ==
  LET IsDec(i) == ~is_skip_row(df.rows[i])
                  /\ ~IsNa(df.rows[i][1])
                  /\ Contains(Lower(Str(df.rows[i][1])), p_december)
      dec_rows == {i \in 1..Len(df.rows) : IsDec(i)}
  IN  IF col_2024 # 0 /\ dec_rows # {}
      THEN ToNumeric(df.rows[SetMin(dec_rows)][col_2024])
      ELSE NoneV

\* variant: a Total row takes part in the chain as the previous value
RECURSIVE LmFromTotalChains(_, _, _, _, _, _)
LmFromTotalChains(df, col_2025, december, i, previous_value, first_month) ==
  IF i > Len(df.rows) THEN <<>>
  ELSE LET row == df.rows[i]
           current_value == ToNumeric(row[col_2025])
       IN  IF is_skip_row(row)
           THEN <<[keep |-> TRUE, v |-> NoneV]>>
                  \o LmFromTotalChains(df, col_2025, december, i + 1, previous_value,
                                       first_month)
           ELSE IF IsTotalRow(row)
           THEN <<[keep |-> FALSE, v |-> NoneV]>>
                  \o LmFromTotalChains(df, col_2025, december, i + 1, current_value,
                                       first_month)
           ELSE IF first_month
           THEN <<[keep |-> FALSE,
                   v |-> IF ~IsNa(december)
                         THEN calculate_lm_percentage(current_value, december)
                         ELSE NoneV]>>
                  \o LmFromTotalChains(df, col_2025, december, i + 1, current_value, FALSE)
           ELSE <<[keep |-> FALSE,
                   v |-> calculate_lm_percentage(current_value, previous_value)]>>
                  \o LmFromTotalChains(df, col_2025, december, i + 1, current_value, FALSE)

\* the LM loop (lines 177-220) from row i on: the LM values of rows i..,
\* given the running previous value and the first_month flag.  An entry
\* "keep" leaves the row's cell as it is (a skipped row).
RECURSIVE LmFrom(_, _, _, _, _, _)
LmFrom(df, col_2025, december, i, previous_value, first_month) ==
  IF i > Len(df.rows) THEN <<>>
  ELSE LET row == df.rows[i]
           current_value == ToNumeric(row[col_2025])
       IN  IF is_skip_row(row)
           THEN <<[keep |-> TRUE, v |-> NoneV]>>
                  \o LmFrom(df, col_2025, december, i + 1, previous_value, first_month)
           ELSE IF IsTotalRow(row)
           THEN <<[keep |-> FALSE, v |-> NoneV]>>
                  \o LmFrom(df, col_2025, december, i + 1, previous_value, first_month)
           ELSE IF first_month
           THEN <<[keep |-> FALSE,
                   v |-> IF ~IsNa(december)
                         THEN calculate_lm_percentage(current_value, december)
                         ELSE NoneV]>>
                  \o LmFrom(df, col_2025, december, i + 1, current_value, FALSE)
           ELSE <<[keep |-> FALSE,
                   v |-> calculate_lm_percentage(current_value, previous_value)]>>
                  \o LmFrom(df, col_2025, december, i + 1, current_value, FALSE)

\* pd.to_numeric(df[col], errors='coerce').sum(): NaN is skipped.  The sum
\* of rows lo..hi, taken by halves (the arithmetic is exact, so the order of
\* the additions does not show)
RECURSIVE SumFrom(_, _, _, _)
SumFrom(rows, col, lo, hi) ==
  IF lo > hi THEN Num(0)
  ELSE IF lo = hi
  THEN (IF IsNa(ToNumeric(rows[lo][col])) THEN Num(0) ELSE ToNumeric(rows[lo][col]))
  ELSE FAdd(SumFrom(rows, col, lo, (lo + hi) \div 2),
            SumFrom(rows, col, ((lo + hi) \div 2) + 1, hi))
ColumnSum(rows, col) == SumFrom(rows, col, 1, Len(rows))

\* metrics_calculator_agent.calculate_metrics
calculate_metrics(df) ==
  LET year_cols == identify_year_columns(df)
      yoy_col == EngineYoyCol(df)
      lm_col == EngineLmCol(df)
      d1 == WithColumn(WithColumn(df, yoy_col), lm_col)
      ky == ColIndex(d1, yoy_col)
      kl == ColIndex(d1, lm_col)
      col_2024 == year_cols["2024"]
      col_2025 == year_cols["2025"]
      d2 == IF col_2024 # 0 /\ col_2025 # 0
            THEN [d1 EXCEPT !.rows = [i \in 1..Len(d1.rows) |->
                    [d1.rows[i] EXCEPT ![ky] = YoyOfRow(d1.rows[i], d1.rows[i][ky],
                                                       col_2024, col_2025)]]]
            ELSE d1
      lm == LmFrom(d2, col_2025, DecemberValue(d2, col_2024), 1, NoneV, TRUE)
      d3 == IF col_2025 # 0
            THEN [d2 EXCEPT !.rows = [i \in 1..Len(d2.rows) |->
                    IF lm[i].keep THEN d2.rows[i]
                    ELSE [d2.rows[i] EXCEPT ![kl] = lm[i].v]]]
            ELSE d2
  IN  IF is_section_empty(df, YearColumnList(df, year_cols))
      THEN SetColumnNone(SetColumnNone(df, w_YOY_pct), w_LM_pct)
      ELSE IF col_2024 # 0 /\ col_2025 # 0
      THEN [d3 EXCEPT !.total_2024 = ColumnSum(d3.rows, col_2024),
                      !.total_2025 = ColumnSum(d3.rows, col_2025)]
      ELSE d3

\* ------------------------------------------------------ summary generator

\* summary_generator_agent.identify_metric_columns and the same loop of
\* excel_writer_agent.write_metrics_to_excel (lines 78-83): positions in df
IsYoyMetricLabel(col_str) ==
  Contains(col_str, p_yoy) /\ (Contains(col_str, p_2024) \/ Contains(col_str, p_2025))
IsLmMetricLabel(col_str) ==
  ~IsYoyMetricLabel(col_str) /\ Contains(col_str, p_lm) /\ Contains(col_str, p_2025)
identify_metric_columns(df) ==
  [yoy |-> SetMax({i \in 1..Len(df.columns) : IsYoyMetricLabel(Lower(df.columns[i]))}),
   lm |-> SetMax({i \in 1..Len(df.columns) : IsLmMetricLabel(Lower(df.columns[i]))})]

\* df[col].notna().any()
AnyNotNa(df, col) == col # 0 /\ \E i \in 1..Len(df.rows) : ~IsNa(df.rows[i][col])

\* the mean, min and max of build_data_summary raise TypeError on a column
\* that holds text among its present values (prompt_templates lines 105-124)
DigestRaises(df, yoy_col, lm_col) ==
  \E i \in 1..Len(df.rows) : IsStr(df.rows[i][yoy_col]) \/ IsStr(df.rows[i][lm_col])

\* summary_generator_agent.generate_summary, lines 91-116: the prompt
\* variant, or the raise of the digest builder
HasMetrics(df) ==
  LET metric_cols == identify_metric_columns(df)
  IN  AnyNotNa(df, metric_cols.yoy) \/ AnyNotNa(df, metric_cols.lm)
PromptRaises(df) ==
  LET metric_cols == identify_metric_columns(df)
  IN  /\ HasMetrics(df)
      /\ metric_cols.yoy # 0 /\ metric_cols.lm # 0
      /\ DigestRaises(df, metric_cols.yoy, metric_cols.lm)

\* variant: the generic sentence whatever the metrics
FallbackAlwaysGeneric(name, df) == w_Generic_pre \o name \o w_Generic_post

\* the fallback sentences of lines 137-140
FallbackSummary(name, df) ==
  IF ~HasMetrics(df) THEN w_NoTraffic_pre \o name \o w_NoTraffic_post
  ELSE w_Generic_pre \o name \o w_Generic_post

\* ----------------------------------------------------------------- writer

\* excel_writer_agent.find_yoy_lm_columns
find_yoy_lm_columns(ws, mc, header_row) ==
  LET Hdr(c) == Lower(Str(Cell(ws, header_row, c)))
      IsYoy(c) == Truthy(Cell(ws, header_row, c)) /\ IsYoyLabel(Hdr(c))
      IsLm(c) == Truthy(Cell(ws, header_row, c)) /\ IsLmLabel(Hdr(c))
      yoy == SetMax({c \in 1..mc : IsYoy(c)})
      lm == SetMax({c \in 1..mc : IsLm(c)})
  IN  [yoy |-> yoy, lm |-> lm,
       summary |-> IF lm # 0 THEN lm + 2 ELSE IF yoy # 0 THEN yoy + 3 ELSE 8]

\* variant: absent values are formatted and written as well
WriteMetricRowsBlanking(ws, df, data_start_row, column_indices, names, i) ==
  LET DoYoy(j) == names.yoy # 0 /\ column_indices.yoy # 0
      DoLm(j) == names.lm # 0 /\ column_indices.lm # 0
      YoyRaises(j) == DoYoy(j) /\ FormatRaises(df.rows[j][names.yoy])
      LmRaises(j) == DoLm(j) /\ FormatRaises(df.rows[j][names.lm])
      stop == SetMin({j \in i..Len(df.rows) : YoyRaises(j) \/ LmRaises(j)})
      Reached(j) == j \in i..Len(df.rows) /\ (stop = 0 \/ j <= stop)
      YoyWritten(j) == Reached(j) /\ DoYoy(j) /\ ~YoyRaises(j)
      LmWritten(j) == Reached(j) /\ ~YoyRaises(j) /\ DoLm(j) /\ ~LmRaises(j)
      After(excel_row, c) ==
        LET j == excel_row - data_start_row + 1
        IN  IF c = column_indices.lm /\ LmWritten(j)
            THEN format_percentage_for_excel(df.rows[j][names.lm])
            ELSE IF c = column_indices.yoy /\ YoyWritten(j)
            THEN format_percentage_for_excel(df.rows[j][names.yoy])
            ELSE ws[excel_row][c]
  IN  [ws |-> [excel_row \in DOMAIN ws |->
                 [c \in DOMAIN ws[excel_row] |-> After(excel_row, c)]],
       raised |-> stop # 0]

\* the row loop of write_metrics_to_excel (lines 89-108) from table row i
\* on: the sheet after the writes, and whether formatting a value raised.
\* Row j writes sheet row data_start_row + (j - 1) only, the YOY cell before
\* the LM cell, and the loop stops at the first row where a format raises.
WriteMetricRows(ws, df, data_start_row, column_indices, names, i) ==
  LET DoYoy(j) == names.yoy # 0 /\ column_indices.yoy # 0
                  /\ ~IsNa(df.rows[j][names.yoy])
      DoLm(j) == names.lm # 0 /\ column_indices.lm # 0
                 /\ ~IsNa(df.rows[j][names.lm])
      YoyRaises(j) == DoYoy(j) /\ FormatRaises(df.rows[j][names.yoy])
      LmRaises(j) == DoLm(j) /\ FormatRaises(df.rows[j][names.lm])
      stop == SetMin({j \in i..Len(df.rows) : YoyRaises(j) \/ LmRaises(j)})
      Reached(j) == j \in i..Len(df.rows) /\ (stop = 0 \/ j <= stop)
      YoyWritten(j) == Reached(j) /\ DoYoy(j) /\ ~YoyRaises(j)
      LmWritten(j) == Reached(j) /\ ~YoyRaises(j) /\ DoLm(j) /\ ~LmRaises(j)
      After(excel_row, c) ==
        LET j == excel_row - data_start_row + 1
        IN  IF c = column_indices.lm /\ LmWritten(j)
            THEN format_percentage_for_excel(df.rows[j][names.lm])
            ELSE IF c = column_indices.yoy /\ YoyWritten(j)
            THEN format_percentage_for_excel(df.rows[j][names.yoy])
            ELSE ws[excel_row][c]
  IN  [ws |-> [excel_row \in DOMAIN ws |->
                 [c \in DOMAIN ws[excel_row] |-> After(excel_row, c)]],
       raised |-> stop # 0]

\* the label test of the Total row (lines 130 and 187)
IsTotalLabel(v) ==
  Truthy(v) /\ IsStr(v)
    /\ Contains(Lower(v.s), p_total) /\ ~Contains(Lower(v.s), p_visits)
\* the label test of the % Change row (line 190)
IsChangeLabel(v) ==
  Truthy(v) /\ IsStr(v) /\ ~IsTotalLabel(v)
    /\ (Contains(Lower(v.s), p_pct_change) \/ Contains(Lower(v.s), p_pctchange))

\* the locate loops: the first row of lo..hi labelled Total (lines 128-132,
\* with break), the last row labelled Total and the last row labelled
\* % Change (lines 183-191, without break); 0 if none
FirstTotalRow(ws, lo, hi) == SetMin({r \in lo..hi : IsTotalLabel(Cell(ws, r, 2))})
LastTotalRow(ws, lo, hi) == SetMax({r \in lo..hi : IsTotalLabel(Cell(ws, r, 2))})
LastChangeRow(ws, lo, hi) == SetMax({r \in lo..hi : IsChangeLabel(Cell(ws, r, 2))})

\* round(x, 0)
Round0(v) == IF v.t = "num" THEN Num(RoundHalfEven(v.n, 100) * 100) ELSE v

\* the header test of write_total_row (lines 145-146)
IsSummedHeader(header_str) ==
  /\ \/ Contains(header_str, p_year) \/ Contains(header_str, p_2023)
     \/ Contains(header_str, p_2024) \/ Contains(header_str, p_2025)
  /\ ~Contains(header_str, p_yoy) /\ ~Contains(header_str, p_lm)

\* position of the first table column whose stripped label is name, 0 if none
StripColIndex(df, name) ==
  SetMin({i \in 1..Len(df.columns) : Strip(df.columns[i]) = name})

\* line 151: the table rows whose first field does not contain "total"
NotTotalText(row) == ~Contains(Lower(Str(row[1])), p_total)
WithoutTotal(df) == SelectSeq(df.rows, NotTotalText)

\* one pass of the column loop of write_total_row (lines 141-157): the
\* value the Total row holds in column col_idx after it
TotalCellAfter(ws, df, header_row, total_row_idx, col_idx) ==
  LET header_value == Cell(ws, header_row, col_idx)
      k == StripColIndex(df, Strip(Str(header_value)))
      total_sum == ColumnSum(WithoutTotal(df), k)
  IN  IF /\ Truthy(header_value)
         /\ IsSummedHeader(Lower(Str(header_value)))
         /\ k # 0
         /\ ~IsNa(total_sum)
         /\ ~(total_sum.t = "num" /\ total_sum.n = 0)
      THEN Round0(total_sum)
      ELSE Cell(ws, total_row_idx, col_idx)

\* the column loop of write_total_row (line 140): columns col_idx..19; the
\* passes write the Total row only and read the header row only
WriteTotalCols(ws, df, header_row, total_row_idx, col_idx) ==
  IF total_row_idx \notin DOMAIN ws THEN ws
  ELSE [ws EXCEPT ![total_row_idx] =
          [c \in DOMAIN ws[total_row_idx] |->
             IF c >= col_idx /\ c <= 19
             THEN TotalCellAfter(ws, df, header_row, total_row_idx, c)
             ELSE ws[total_row_idx][c]]]

\* excel_writer_agent.write_total_row
write_total_row(ws, df, info) ==
  LET total_row_idx == FirstTotalRow(ws, info.data_start_row, info.data_end_row)
  IN  IF total_row_idx = 0 THEN ws
      ELSE WriteTotalCols(ws, df, info.header_row, total_row_idx, 3)

\* variant: no clearing
ClearNothing(ws, change_row_idx, col_idx) == ws

\* the clearing loop of write_percent_change_row (lines 199-200)
ClearCols(ws, change_row_idx, col_idx) ==
  IF change_row_idx \notin DOMAIN ws THEN ws
  ELSE [ws EXCEPT ![change_row_idx] =
          [c \in DOMAIN ws[change_row_idx] |->
             IF c >= col_idx /\ c <= 19 THEN NoneV ELSE ws[change_row_idx][c]]]

\* the year a header cell denotes for the % Change row (lines 211-220)
ChangeYearOfHeader(header_value) ==
  LET header_str == Lower(Str(header_value))
  IN  IF ~Truthy(header_value) THEN "none"
      ELSE IF Contains(header_str, p_yoy) \/ Contains(header_str, p_lm)
              \/ Contains(header_str, p_pct_change) THEN "none"
      ELSE IF Contains(header_str, p_2023) THEN "2023"
      ELSE IF Contains(header_str, p_2024) THEN "2024"
      ELSE IF Contains(header_str, p_2025) THEN "2025"
      ELSE "none"

\* year_columns after the sort of line 222: the columns of 3..19 of each
\* year, the years ascending, the columns of one year in sheet order
ColsOfYear(ws, header_row, year, col_idx) ==
  LET OfYear(yc) == ChangeYearOfHeader(Cell(ws, header_row, yc.col_idx)) = year
  IN  SelectSeq([i \in 1..(20 - col_idx) |-> [col_idx |-> col_idx + i - 1, year |-> year]],
                OfYear)
ChangeYearColumns(ws, header_row) ==
  ColsOfYear(ws, header_row, "2023", 3)
    \o ColsOfYear(ws, header_row, "2024", 3)
    \o ColsOfYear(ws, header_row, "2025", 3)

\* float(v) if v is not None else None, None when float() raises (lines 252-256)
FloatOrNone(v) == ToNumeric(v)

\* the fallback of lines 259-263: the sum of the first table column whose
\* label names the year and neither "yoy" nor "lm" (None when there is none)
FallbackTotal(df, year) ==
  LET Named(i) == /\ Contains(Lower(df.columns[i]), year)
                  /\ ~Contains(Lower(df.columns[i]), p_yoy)
                  /\ ~Contains(Lower(df.columns[i]), p_lm)
      named == {i \in 1..Len(df.columns) : Named(i)}
  IN  IF named # {} THEN ColumnSum(df.rows, SetMin(named)) ELSE NoneV

YearText(year) == CASE year = "2023" -> p_2023 [] year = "2024" -> p_2024 [] OTHER -> p_2025

\* the Total value taken for one year column (lines 250-263)
TotalValOf(ws_data_only, has_data_only, df, total_row_idx, yc) ==
  LET read == IF has_data_only THEN FloatOrNone(Cell(ws_data_only, total_row_idx, yc.col_idx))
              ELSE NoneV
  IN  IF ~IsNa(read) THEN read ELSE FallbackTotal(df, YearText(yc.year))

\* variant: the month list without 'feb'
JanAugWithoutFeb == {p_jan, p_march, p_april, p_may, p_june, p_july, p_aug}

\* any(m in month_lower for m in jan_aug_months) (line 275)
JanAugMonths == {p_jan, p_feb, p_march, p_april, p_may, p_june, p_july, p_aug}
IsJanAugLabel(v) ==
  Truthy(v) /\ IsStr(v) /\ \E m \in JanAugMonths : Contains(Lower(Strip(v.s)), m)

\* one pass of the month loop (lines 271-286): what row row_idx adds to
\* jan_aug_sum
JanAugTerm(ws, ws_data_only, has_data_only, col_idx, row_idx) ==
  LET val == IF has_data_only THEN Cell(ws_data_only, row_idx, col_idx)
             ELSE Cell(ws, row_idx, col_idx)
  IN  IF IsJanAugLabel(Cell(ws, row_idx, 2)) /\ ~IsNa(FloatOrNone(val))
      THEN FloatOrNone(val)
      ELSE Num(0)

\* the Jan-Aug sum of one year column (lines 270-286), rows row_idx..total-1,
\* taken by halves
RECURSIVE JanAugFrom(_, _, _, _, _, _)
JanAugFrom(ws, ws_data_only, has_data_only, col_idx, row_idx, total_row_idx) ==
  IF row_idx >= total_row_idx THEN Num(0)
  ELSE IF row_idx + 1 = total_row_idx
  THEN JanAugTerm(ws, ws_data_only, has_data_only, col_idx, row_idx)
  ELSE FAdd(JanAugFrom(ws, ws_data_only, has_data_only, col_idx,
                       row_idx, (row_idx + total_row_idx) \div 2),
            JanAugFrom(ws, ws_data_only, has_data_only, col_idx,
                       (row_idx + total_row_idx) \div 2, total_row_idx))

\* total_values / jan_aug_values after the loop of lines 248-290: for each
\* year the value of the last of its columns whose value was accepted
AcceptedOf(year_columns, year, value_of) ==
  LET ok == {k \in 1..Len(year_columns) :
               year_columns[k].year = year /\ GtZero(value_of[k])}
  IN  IF ok # {} THEN value_of[SetMax(ok)] ELSE NoneV

\* f"{pct_change:.2f}" of ((current - base) / base) * 100, base > 0
PctChangeText(current, base) ==
  LET diff == FSub(current, base)
      kind == PctKind(diff, base)
      h == RoundedPct(diff.n, base.n)
  IN  CASE IsNa(diff) -> <<"n", "a", "n">>
        [] kind = "finite" -> Fixed2(diff.n < 0, IF h < 0 THEN 0 - h ELSE h)
        [] kind = "zero" -> (IF Sign(diff) < 0 THEN <<"-", "0", ".", "0", "0">>
                             ELSE <<"0", ".", "0", "0">>)
        [] kind = "infinite" -> (IF Sign(diff) < 0 THEN <<"-", "i", "n", "f">>
                                 ELSE <<"i", "n", "f">>)
        [] OTHER -> <<"n", "a", "n">>

\* variant: every non-reference year is compared by its Total
RECURSIVE WriteChangeColsByTotal(_, _, _, _, _, _, _)
WriteChangeColsByTotal(ws, change_row_idx, year_columns, total_values, jan_aug_values, reference_year, k) ==
  IF k > Len(year_columns) THEN ws
  ELSE LET yc == year_columns[k]
           current_total == total_values[yc.year]
           reference_total == total_values[reference_year]
           ws1 ==
             IF yc.year = reference_year \/ IsNa(current_total) THEN ws
             ELSE SetCell(ws, change_row_idx, yc.col_idx,
                          Txt(PctChangeText(current_total, reference_total) \o w_pct))
       IN  WriteChangeColsByTotal(ws1, change_row_idx, year_columns, total_values,
                                  jan_aug_values, reference_year, k + 1)

\* the write loop of lines 308-331 from position k of year_columns on
RECURSIVE WriteChangeCols(_, _, _, _, _, _, _)
WriteChangeCols(ws, change_row_idx, year_columns, total_values, jan_aug_values, reference_year, k) ==
  IF k > Len(year_columns) THEN ws
  ELSE LET yc == year_columns[k]
           jan_aug_2024 == jan_aug_values["2024"]
           current_jan_aug == jan_aug_values[yc.year]
           current_total == total_values[yc.year]
           reference_total == total_values[reference_year]
           ws1 ==
             IF yc.year = reference_year THEN ws
             ELSE IF yc.year = "2025" /\ ~IsNa(jan_aug_2024)
             THEN (IF GtZero(jan_aug_2024) /\ ~IsNa(current_jan_aug)
                   THEN SetCell(ws, change_row_idx, yc.col_idx,
                          Txt(PctChangeText(current_jan_aug, jan_aug_2024) \o w_till_Aug))
                   ELSE ws)
             ELSE (IF ~IsNa(current_total)
                   THEN SetCell(ws, change_row_idx, yc.col_idx,
                          Txt(PctChangeText(current_total, reference_total) \o w_pct))
                   ELSE ws)
       IN  WriteChangeCols(ws1, change_row_idx, year_columns, total_values,
                           jan_aug_values, reference_year, k + 1)

\* variant: the % Change row is cleared and relabelled as soon as it is
\* located, before the Total row is looked for
ClearBeforeLocate(ws, df, info, ws_data_only, has_data_only) ==
  LET change_row_idx == LastChangeRow(ws, info.data_start_row, info.data_end_row)
  IN  IF change_row_idx = 0 THEN ws
      ELSE SetCell(ClearCols(ws, change_row_idx, 2), change_row_idx, 2, Txt(w_PctChange))

\* excel_writer_agent.write_percent_change_row
write_percent_change_row(ws, df, info, ws_data_only, has_data_only) ==
  LET total_row_idx == LastTotalRow(ws, info.data_start_row, info.data_end_row)
      change_row_idx == LastChangeRow(ws, info.data_start_row, info.data_end_row)
      cleared == SetCell(ClearCols(ws, change_row_idx, 2), change_row_idx, 2, Txt(w_PctChange))
      year_columns == ChangeYearColumns(cleared, info.header_row)
      TotalOf(yc) == TotalValOf(ws_data_only, has_data_only, df, total_row_idx, yc)
      JanAugOf(yc) == JanAugFrom(cleared, ws_data_only, has_data_only, yc.col_idx,
                                 info.data_start_row, total_row_idx)
      total_of == [k \in 1..Len(year_columns) |-> TotalOf(year_columns[k])]
      jan_aug_of == [k \in 1..Len(year_columns) |-> JanAugOf(year_columns[k])]
      total_values == [y \in {"2023", "2024", "2025"} |-> AcceptedOf(year_columns, y, total_of)]
      jan_aug_values == [y \in {"2023", "2024", "2025"} |-> AcceptedOf(year_columns, y, jan_aug_of)]
      reference_year == year_columns[1].year
  IN  IF total_row_idx = 0 \/ change_row_idx = 0 THEN ws
      ELSE IF Len(year_columns) < 2 THEN cleared
      ELSE IF Cardinality({y \in {"2023", "2024", "2025"} : ~IsNa(total_values[y])}) < 2
      THEN cleared
      ELSE IF IsNa(total_values[reference_year]) THEN cleared
      ELSE WriteChangeCols(cleared, change_row_idx, year_columns, total_values,
                           jan_aug_values, reference_year, 1)

\* a character of the class \w
IsWordChar(ch) ==
  \/ \E k \in 1..Len(UpperAlpha) : ch = UpperAlpha[k] \/ ch = LowerAlpha[k]
  \/ \E k \in 1..Len(DigitChars) : ch = DigitChars[k]
  \/ ch = "_"
\* bool(re.search(r'\bword\b', text, re.IGNORECASE)) for a lower-case word
SearchWord(text, word) ==
  \E i \in 1..(Len(text) - Len(word) + 1) :
    /\ Lower(SubSeq(text, i, i + Len(word) - 1)) = word
    /\ (i = 1 \/ ~IsWordChar(text[i - 1]))
    /\ (i + Len(word) - 1 = Len(text) \/ ~IsWordChar(text[i + Len(word)]))
\* the font colour of the narrative cell (lines 372-388)
font_color(text) ==
  LET has_declined == SearchWord(text, p_decline) \/ SearchWord(text, p_declined)
      has_upward == SearchWord(text, p_upward)
  IN  IF has_upward THEN "00B050"
      ELSE IF has_declined THEN "22577A"
      ELSE "000000"

\* excel_writer_agent.write_summary_to_section: the header label one row
\* above the block and the text in the first cell of the block
write_summary_to_section(ws, text, data_start_row, summary_column_idx) ==
  SetCell(SetCell(ws, data_start_row - 1, summary_column_idx, Txt(w_SummaryHeader)),
          data_start_row, summary_column_idx, Txt(text))

\* excel_writer_agent.write_metrics_to_excel followed by the summary write
\* of execute (lines 445-469): the sheet, and whether a write raised
WriterResult(ws, mc, df, info, text, ws_data_only, has_data_only) ==
  LET column_indices == find_yoy_lm_columns(ws, mc, info.header_row)
      names == identify_metric_columns(df)
      m == WriteMetricRows(ws, df, info.data_start_row, column_indices, names, 1)
      t == write_total_row(m.ws, df, info)
      c == write_percent_change_row(t, df, info, ws_data_only, has_data_only)
  IN  IF m.raised THEN m
      ELSE [ws |-> write_summary_to_section(c, text, info.data_start_row,
                                            column_indices.summary),
            raised |-> FALSE]

\* ---------------------------------------------------------------- harness

\* the texts the text-generation service may answer with
LLMTexts == {t_llm_up, t_llm_down}

NoSection == [name |-> <<>>, header_row |-> 0, data_start_row |-> 0, data_end_row |-> 0]

\* the largest column holding a value (at least 2): worksheet.max_column
MaxUsedCol(ws) ==
  LET used == {c \in 2..GridCols : \E r \in DOMAIN ws : ~IsNa(ws[r][c])}
  IN  IF used = {} THEN 2 ELSE CHOOSE c \in used : \A d \in used : d <= c

Logged(node) == Append(log, [node |-> node, idx |-> current_section_index])

\* excel_reader_agent.execute
ExcelReader ==
  /\ pc = "excel_reader"
  /\ worksheet' = input_file
  /\ max_row' = Len(input_file) - 1
  /\ max_column' = MaxUsedCol(input_file)
  /\ pc' = "section_detector"
  /\ log' = Logged("excel_reader")
  /\ UNCHANGED <<probe, llm_errors, input_file, keeps_input_path, sections, current_section_index,
                 section_name, section_info, section_dataframe, calculated_metrics,
                 summary_text, err, saves>>

\* section_detector_agent.execute
SectionDetector ==
  /\ pc = "section_detector"
  /\ sections' = detect_sections(worksheet, max_column, max_row)
  /\ current_section_index' = 0
  /\ pc' = "process_section"
  /\ log' = Logged("section_detector")
  /\ UNCHANGED <<probe, llm_errors, input_file, worksheet, max_row, max_column, keeps_input_path,
                 section_name, section_info, section_dataframe, calculated_metrics,
                 summary_text, err, saves>>

\* traffic_analysis_graph.process_section_node
ProcessSection ==
  /\ pc = "process_section"
  /\ IF current_section_index >= Len(sections)
     THEN UNCHANGED <<section_name, section_info, section_dataframe>>
     ELSE /\ section_info' = sections[current_section_index + 1]
          /\ section_name' = sections[current_section_index + 1].name
          /\ section_dataframe' =
               extract_section_data(worksheet, max_column, sections[current_section_index + 1])
  /\ pc' = "metrics_calculator"
  /\ log' = Logged("process_section")
  /\ UNCHANGED <<probe, llm_errors, input_file, worksheet, max_row, max_column, keeps_input_path, sections,
                 current_section_index, calculated_metrics, summary_text, err, saves>>

\* metrics_calculator_agent.execute: df.shape on None raises AttributeError
MetricsCalculator ==
  /\ pc = "metrics_calculator"
  /\ IF section_dataframe.none
     THEN /\ err' = "AttributeError"
          /\ pc' = "failed"
          /\ UNCHANGED <<section_dataframe, calculated_metrics>>
     ELSE /\ section_dataframe' = calculate_metrics(section_dataframe)
          /\ calculated_metrics' = calculate_metrics(section_dataframe)
          /\ pc' = "summary_generator"
          /\ err' = err
  /\ log' = Logged("metrics_calculator")
  /\ UNCHANGED <<probe, llm_errors, input_file, worksheet, max_row, max_column, keeps_input_path, sections,
                 current_section_index, section_name, section_info, summary_text, saves>>

\* summary_generator_agent.execute: the digest builder may raise; a failed
\* request is replaced by the fallback sentence
SummaryGenerator ==
  /\ pc = "summary_generator"
  /\ IF PromptRaises(calculated_metrics)
     THEN /\ err' = "TypeError"
          /\ pc' = "failed"
          /\ summary_text' = summary_text
          /\ llm_errors' = llm_errors
     ELSE /\ \E answered \in BOOLEAN, response \in LLMTexts :
               /\ summary_text' = IF answered THEN Strip(response)
                                  ELSE FallbackSummary(section_name, calculated_metrics)
               /\ llm_errors' = Append(llm_errors, ~answered)
          /\ pc' = "excel_writer"
          /\ err' = err
  /\ log' = Logged("summary_generator")
  /\ UNCHANGED <<probe, input_file, worksheet, max_row, max_column, keeps_input_path, sections,
                 current_section_index, section_name, section_info, section_dataframe,
                 calculated_metrics, saves>>

\* the columns the writer's cell accesses create: the header and % Change
\* loops reach column 19 once a Total row is found
TouchedCols(ws, info, summary_col) ==
  IF FirstTotalRow(ws, info.data_start_row, info.data_end_row) # 0
  THEN (IF summary_col > 19 THEN summary_col ELSE 19)
  ELSE summary_col

\* excel_writer_agent.execute
ExcelWriter ==
  /\ pc = "excel_writer"
  /\ LET res == WriterResult(worksheet, max_column, calculated_metrics, section_info,
                             summary_text, input_file, keeps_input_path)
         summary_col == find_yoy_lm_columns(worksheet, max_column,
                                            section_info.header_row).summary
         touched == TouchedCols(worksheet, section_info, summary_col)
     IN  /\ worksheet' = res.ws
         /\ max_column' = IF touched > max_column THEN touched ELSE max_column
         /\ IF res.raised
            THEN err' = "ValueError" /\ pc' = "failed"
            ELSE err' = err /\ pc' = "increment_index"
  /\ log' = Logged("excel_writer")
  /\ UNCHANGED <<probe, llm_errors, input_file, max_row, keeps_input_path, sections, current_section_index,
                 section_name, section_info, section_dataframe, calculated_metrics,
                 summary_text, saves>>

\* variant: the index advances by two
IncrementByTwo ==
  /\ pc = "increment_index"
  /\ current_section_index' = current_section_index + 2
  /\ pc' = IF current_section_index + 2 < Len(sections) THEN "process_section" ELSE "save"
  /\ log' = Logged("increment_index")
  /\ UNCHANGED <<probe, llm_errors, input_file, worksheet, max_row, max_column,
                 keeps_input_path, sections, section_name, section_info,
                 section_dataframe, calculated_metrics, summary_text, err, saves>>

\* variant: the router goes to the end after the first section
IncrementThenEnd ==
  /\ pc = "increment_index"
  /\ current_section_index' = current_section_index + 1
  /\ pc' = "save"
  /\ log' = Logged("increment_index")
  /\ UNCHANGED <<probe, llm_errors, input_file, worksheet, max_row, max_column,
                 keeps_input_path, sections, section_name, section_info,
                 section_dataframe, calculated_metrics, summary_text, err, saves>>

\* traffic_analysis_graph.increment_section_index and should_continue_sections
IncrementIndex ==
  /\ pc = "increment_index"
  /\ current_section_index' = current_section_index + 1
  /\ pc' = IF current_section_index + 1 < Len(sections) THEN "process_section" ELSE "save"
  /\ log' = Logged("increment_index")
  /\ UNCHANGED <<probe, llm_errors, input_file, worksheet, max_row, max_column, keeps_input_path, sections,
                 section_name, section_info, section_dataframe, calculated_metrics,
                 summary_text, err, saves>>

\* main, lines 195-203 and 226-232: the one save; a failing save exits 1
Save ==
  /\ pc = "save"
  /\ \E written \in BOOLEAN :
       IF written THEN saves' = saves + 1 /\ pc' = "done" /\ err' = err
       ELSE saves' = saves /\ pc' = "failed" /\ err' = "PersistFailure"
  /\ log' = Logged("save")
  /\ UNCHANGED <<probe, llm_errors, input_file, worksheet, max_row, max_column, keeps_input_path, sections,
                 current_section_index, section_name, section_info, section_dataframe,
                 calculated_metrics, summary_text>>

Next ==
  \/ ExcelReader
  \/ SectionDetector
  \/ ProcessSection
  \/ MetricsCalculator
  \/ SummaryGenerator
  \/ ExcelWriter
  \/ IncrementIndex
  \/ Save

\* ----------------------------------------------------------- input sheets

\* a sheet row from its leading cells
MkRow(cells) == [c \in 1..GridCols |-> IF c <= Len(cells) THEN cells[c] ELSE NoneV]

\* header rows: the labels of columns B, C, ...
HdrThreeYears == <<t_Month, t_Year2023, t_Year2024, t_Year2025, w_YOY_2024_2025, w_LM_2025>>
HdrTwoYears == <<t_Month, t_Year2024, t_Year2025, w_YOY_2024_2025, w_LM_2025>>
HdrOneYear == <<t_Month, t_Year2025, w_YOY_2024_2025, w_LM_2025>>
HdrShort == <<t_Month, t_Year2023, t_Year2024, t_Year2025, t_YOYshort, t_LMshort>>
HdrOldYears == <<t_Month, t_Year2023, t_Year2024, t_YOYshort, t_LMshort>>

HeaderRow(name, h) == MkRow(<<Txt(name)>> \o [j \in 1..Len(h) |-> Txt(h[j])])

\* a data row under header h: the label in column B, and in every further
\* column the value given for the role of its header
DataRow(h, label, v) ==
  MkRow(<<NoneV, label>> \o
        [j \in 1..(Len(h) - 1) |->
           CASE h[j + 1] = t_Year2023 -> v.y2023
             [] h[j + 1] = t_Year2024 -> v.y2024
             [] h[j + 1] = t_Year2025 -> v.y2025
             [] h[j + 1] \in {w_YOY_2024_2025, t_YOYshort} -> v.yoy
             [] OTHER -> v.lm])
Vals(a, b, c, y, l) == [y2023 |-> a, y2024 |-> b, y2025 |-> c, yoy |-> y, lm |-> l]

MonthNames == <<t_January, t_February, t_March, t_April, t_May, t_June, t_July, t_August>>

\* the sheet with the given sheet rows, and one spare row below max_row
SheetOf(rows) == Append(rows, EmptyRow)

InitWith(sheet, kip) ==
  /\ pc = "excel_reader"
  /\ input_file = sheet
  /\ worksheet = <<>>
  /\ max_row = 0
  /\ max_column = 0
  /\ keeps_input_path = kip
  /\ sections = <<>>
  /\ current_section_index = 0
  /\ section_name = <<>>
  /\ section_info = NoSection
  /\ section_dataframe = NoDataFrame
  /\ calculated_metrics = NoDataFrame
  /\ summary_text = <<>>
  /\ err = ""
  /\ saves = 0
  /\ log = <<>>
  /\ llm_errors = <<>>
  /\ probe = NoProbe

\* Layout sheets: every row is a header, a month, a Total, a % Change, a
\* blank row or an unlabelled row of zeros, in any order.
MaxRow == 3
Kinds == {"header", "month", "total", "change", "blank", "zeros"}
MonthsAbove(kinds, r) == Cardinality({q \in 1..(r - 1) : kinds[q] = "month"})
LayoutRow(kinds, h, r) ==
  CASE kinds[r] = "header" -> HeaderRow(IF r % 2 = 1 THEN t_Organic ELSE t_Paid, h)
    [] kinds[r] = "month" ->
         DataRow(h, Txt(MonthNames[MonthsAbove(kinds, r) + 1]),
                 Vals(N(10), N(10), N(10 + r), NoneV, NoneV))
    [] kinds[r] = "total" -> DataRow(h, Txt(t_Total), Vals(N(7), N(7), N(7), N(5), NoneV))
    [] kinds[r] = "change" -> DataRow(h, Txt(t_PctChange), Vals(N(3), N(3), N(3), N(3), N(3)))
    [] kinds[r] = "zeros" -> DataRow(h, NoneV, Vals(N(0), N(0), N(0), NoneV, NoneV))
    [] OTHER -> EmptyRow
LayoutSheet(kinds, h) == SheetOf([r \in 1..MaxRow |-> LayoutRow(kinds, h, r)])

Init ==
  \E kinds \in [1..MaxRow -> Kinds], h \in {HdrThreeYears, HdrOneYear}, kip \in BOOLEAN :
    InitWith(LayoutSheet(kinds, h), kip)

Spec == Init /\ [][Next]_vars

\* ------------------------------------------------------------ value sheets

\* One section: a header row, January, February, optionally a first
\* % Change row, a Total row and a % Change row.  The January cells of the
\* 2024 and 2025 columns, and the cells the January and Total rows already
\* hold under the YOY header, vary.
Cells2024 == {NoneV, N(0), N(10), N(0 - 5), Txt(t_na), Txt(p_inf)}
Cells2025 == {NoneV, N(100), N(11), Txt(t_na)}
StaleYoy == {NoneV, N(5), Txt(t_na)}
StaleTotalYoy == {NoneV, N(5)}
ValueHeaders == {HdrThreeYears, HdrOneYear, HdrShort}

ValueSheet(h, v2024, v2025, yoy, total_yoy, two_change) ==
  SheetOf(
    <<HeaderRow(t_Organic, h),
      DataRow(h, Txt(t_January), Vals(N(10), v2024, v2025, yoy, NoneV)),
      DataRow(h, Txt(t_February), Vals(N(10), N(10), N(9), NoneV, NoneV))>>
    \o (IF two_change
        THEN <<DataRow(h, Txt(t_PctChange), Vals(N(3), N(3), N(3), N(3), N(3)))>>
        ELSE <<>>)
    \o <<DataRow(h, Txt(t_Total), Vals(N(7), N(7), N(7), total_yoy, NoneV)),
          DataRow(h, Txt(t_PctChange), Vals(N(3), N(3), N(3), N(3), N(3)))>>)

InitValues ==
  \E h \in ValueHeaders, v2024 \in Cells2024, v2025 \in Cells2025, yoy \in StaleYoy,
     total_yoy \in StaleTotalYoy, two_change \in BOOLEAN, kip \in BOOLEAN :
    InitWith(ValueSheet(h, v2024, v2025, yoy, total_yoy, two_change), kip)

SpecValues == InitValues /\ [][Next]_vars

\* ---------------------------------------------------------- scenario sheet

\* Header row 10 = [Month, Year-2023, Year-2024, Year-2025, YOY%, LM%],
\* rows 11-18 = January..August with 2024 = 10 and 2025 = 11, 9, 10, ...,
\* a Total row at 19 and a % Change row at 20.  The 2023 month cells and
\* the cells the Total row holds before the run vary.
Scenario2025 == <<N(11), N(9), N(10), N(10), N(10), N(10), N(10), N(10)>>
ScenarioSheet(v2023, total_cell) ==
  SheetOf(
    [r \in 1..9 |-> EmptyRow]
    \o <<HeaderRow(t_Organic, HdrShort)>>
    \o [i \in 1..8 |->
          DataRow(HdrShort, Txt(MonthNames[i]),
                  Vals(v2023, N(10), Scenario2025[i], NoneV, NoneV))]
    \o <<DataRow(HdrShort, Txt(t_Total),
                  Vals(total_cell, total_cell, total_cell, NoneV, NoneV)),
          DataRow(HdrShort, Txt(t_PctChange), Vals(NoneV, NoneV, NoneV, NoneV, NoneV))>>)

InitScenario ==
  \E v2023 \in {NoneV, N(10)}, total_cell \in {NoneV, N(7), N(0)}, kip \in BOOLEAN :
    InitWith(ScenarioSheet(v2023, total_cell), kip)

SpecScenario == InitScenario /\ [][Next]_vars

\* ------------------------------------------------------------- name sheets

\* Rows that hold only columns A and B: blank, or a candidate header row
\* (column B = Month) whose column A is a section name or one of the words
\* the scanner reserves, padded and in another case.
NameRows == 3
CandidateNames == {t_Organic, t_Paid, t_TotalPadded, t_PctChange, t_month_lower}
NameRowsOf == {EmptyRow} \cup {MkRow(<<Txt(a), Txt(t_Month)>>) : a \in CandidateNames}

InitNames ==
  \E rows \in [1..NameRows -> NameRowsOf], kip \in BOOLEAN :
    InitWith(SheetOf(rows), kip)

SpecNames == InitNames /\ [][Next]_vars

\* -------------------------------------------------------------- wide sheets

\* One section: a header row, January, February, a Total row and a % Change
\* row that holds 3 under every header.  The header is the short one, or the
\* short one followed by further labelled columns Note1, Note2, ... up to
\* the last column of the grid, or the short one without its 2025 column.
\* A fourth header puts the YOY column behind the labelled columns.
\* The 2025 column of the month rows is filled or empty as a whole.
\* The Total row is present or missing.
HdrWide ==
  HdrShort \o [k \in 1..(GridCols - 1 - Len(HdrShort)) |-> t_Note \o NatToChars(k)]
\* the three year columns, labelled columns up to column S, and the YOY
\* column in the last column of the grid
HdrFar ==
  <<t_Month, t_Year2023, t_Year2024, t_Year2025>>
    \o [k \in 1..(GridCols - 6) |-> t_Note \o NatToChars(k)]
    \o <<w_YOY_2024_2025>>
WideSheet(h, v2024, v2025, with_total) ==
  SheetOf(
    <<HeaderRow(t_Organic, h),
      DataRow(h, Txt(t_January), Vals(N(10), v2024, v2025, NoneV, NoneV)),
      DataRow(h, Txt(t_February),
              Vals(N(10), N(10), IF IsNa(v2025) THEN NoneV ELSE N(9), NoneV, NoneV))>>
    \o (IF with_total
        THEN <<DataRow(h, Txt(t_Total), Vals(N(7), N(7), N(7), NoneV, NoneV))>>
        ELSE <<>>)
    \o <<DataRow(h, Txt(t_PctChange), Vals(N(3), N(3), N(3), N(3), N(3)))>>)

InitWide ==
  \E h \in {HdrShort, HdrWide, HdrOldYears, HdrFar}, v2024 \in {NoneV, N(10)},
     v2025 \in {NoneV, N(11)}, with_total \in BOOLEAN, kip \in BOOLEAN :
    InitWith(WideSheet(h, v2024, v2025, with_total), kip)

SpecWide == InitWide /\ [][Next]_vars

\* ------------------------------------------- direct calls of the helpers

\* The percentage helpers of excel_utils called directly on a pair
\* (current, previous): absent, infinite, or a multiple of one half.
MaxHalves == 6
PctInputs ==
  {NoneV, PosInf, NegInf} \cup {Num(k * 50) : k \in (0 - MaxHalves)..MaxHalves}

Idle ==
  /\ pc = "idle"
  /\ input_file = <<EmptyRow>>
  /\ worksheet = <<>>
  /\ max_row = 0
  /\ max_column = 0
  /\ keeps_input_path = FALSE
  /\ sections = <<>>
  /\ current_section_index = 0
  /\ section_name = <<>>
  /\ section_info = NoSection
  /\ section_dataframe = NoDataFrame
  /\ calculated_metrics = NoDataFrame
  /\ summary_text = <<>>
  /\ err = ""
  /\ saves = 0
  /\ log = <<>>
  /\ llm_errors = <<>>

InitPct ==
  /\ Idle
  /\ \E current \in PctInputs, previous \in PctInputs :
       probe = [called |-> FALSE, current |-> current, previous |-> previous,
                yoy |-> NoneV, lm |-> NoneV]

\* calculate_yoy_percentage(previous, current) and
\* calculate_lm_percentage(current, previous)
CallPct ==
  /\ pc = "idle"
  /\ ~probe.called
  /\ probe' = [probe EXCEPT !.called = TRUE,
                            !.yoy = calculate_yoy_percentage(probe.previous, probe.current),
                            !.lm = calculate_lm_percentage(probe.current, probe.previous)]
  /\ UNCHANGED <<pc, input_file, worksheet, max_row, max_column, keeps_input_path,
                 sections, current_section_index, section_name, section_info,
                 section_dataframe, calculated_metrics, summary_text, err, saves, log,
                 llm_errors>>

NextPct == CallPct

SpecPct == InitPct /\ [][NextPct]_vars

\* --------------------------------------------- direct calls of font_color

\* Narrative texts: two words joined by a separator and closed by a full
\* stop; the words are the keywords in several cases and inflections.
NarrativeWords ==
  {t_upward, t_UPWARD, t_upwards, t_declined, t_Decline, t_declining, t_steady}
NarrativeJoins == {<<" ">>, <<",", " ">>, <<"-">>}
NarrativeTexts ==
  {a \o j \o b \o <<".">> : a \in NarrativeWords, j \in NarrativeJoins, b \in NarrativeWords}

InitColor ==
  /\ Idle
  /\ \E text \in NarrativeTexts :
       probe = [called |-> FALSE, text |-> text, color |-> ""]

\* the colour choice of write_summary_to_section on the text
CallColor ==
  /\ pc = "idle"
  /\ ~probe.called
  /\ probe' = [probe EXCEPT !.called = TRUE, !.color = font_color(probe.text)]
  /\ UNCHANGED <<pc, input_file, worksheet, max_row, max_column, keeps_input_path,
                 sections, current_section_index, section_name, section_info,
                 section_dataframe, calculated_metrics, summary_text, err, saves, log,
                 llm_errors>>

NextColor == CallColor

SpecColor == InitColor /\ [][NextColor]_vars

\* ------------------------------------------------------------- properties

\* the scanner has run / the metrics engine has returned a table
Scanned == pc \notin {"idle", "excel_reader", "section_detector"}
Computed == Scanned /\ ~calculated_metrics.none
\* the writer has finished the section it was given
Written == pc \in {"increment_index", "save", "done"}

\* C1: when the scanner finds zero sections the run is a valid run: no
\* step after the scan fails and the run is not aborted before the persist.
C1_ZeroSectionsRunNotAborted ==
  (Scanned /\ sections = <<>>) =>
    ~(pc = "failed" /\ err \in {"AttributeError", "TypeError", "ValueError"})

\* the years identify_year_columns resolves in a table
ResolvedYears(df) == {y \in {"2023", "2024", "2025"} : identify_year_columns(df)[y] # 0}
\* the columns of a table that the narrative and the writer read as its
\* YOY column and its LM column
MetricColumns(df) ==
  {identify_metric_columns(df).yoy, identify_metric_columns(df).lm} \ {0}
\* the Total rows of a table
TotalRowsOf(df) == {i \in 1..Len(df.rows) : Contains(Lower(Str(df.rows[i][1])), p_total)}
\* the sheet rows of the current section labelled Total, and the sheet
\* columns whose header of the current section names YOY or LM
SectionRows == section_info.data_start_row..section_info.data_end_row
TotalSheetRows == {r \in SectionRows : IsTotalLabel(Cell(input_file, r, 2))}
MetricSheetCols ==
  {c \in 3..19 :
     LET header_str == Lower(Str(Cell(input_file, section_info.header_row, c)))
     IN  Contains(header_str, p_yoy) \/ Contains(header_str, p_lm)}

\* C2: in a section with fewer than 2 resolvable year columns, after the
\* metrics engine every row of the table holds the absence marker in its
\* YOY column and in its LM column, whatever the grid held there.
C2_FewYearsAllRowsAbsent ==
  (Computed /\ Cardinality(ResolvedYears(calculated_metrics)) < 2) =>
    \A i \in 1..Len(calculated_metrics.rows) :
      \A k \in MetricColumns(calculated_metrics) :
        IsNa(calculated_metrics.rows[i][k])

\* C4: in every section the Total row of the computed table holds the
\* absence marker as YOY and as LM, and the run does not write the Total
\* row's YOY and LM cells of the grid.
C4_TotalRowMetricsAbsent ==
  /\ Computed =>
        \A i \in TotalRowsOf(calculated_metrics) :
          \A k \in MetricColumns(calculated_metrics) :
            IsNa(calculated_metrics.rows[i][k])
  /\ Written =>
        \A r \in TotalSheetRows : \A c \in MetricSheetCols :
          Cell(worksheet, r, c) = Cell(input_file, r, c)

\* C7: a non-numeric or non-finite cell of a year column or of a metric
\* column never makes the metrics engine, the digest builder or the writer
\* raise: the run is not aborted by it.
C7_BadValuesNeverRaise ==
  ~(pc = "failed" /\ err \in {"TypeError", "ValueError"})

\* C10: every section the scanner emits has
\* header_row < data_start_row <= data_end_row, whatever the layout.
C10_SectionBoundsOrdered ==
  Scanned =>
    \A i \in 1..Len(sections) :
      /\ sections[i].header_row < sections[i].data_start_row
      /\ sections[i].data_start_row <= sections[i].data_end_row

\* |x|
Abs(x) == IF x < 0 THEN 0 - x ELSE x

\* r is ((current - previous) / previous) * 100 rounded to 2 decimals:
\* a number no further than half a hundredth from the exact ratio
IsRoundedPct(r, current, previous) ==
  /\ r.t = "num"
  /\ 2 * Abs(r.n * previous.n - (current.n - previous.n) * 10000) <= previous.n

\* C5: the guarded percentage of (current, previous), as YOY and as LM: with
\* previous > 0 and current present it is ((current - previous) / previous)
\* * 100 rounded to 2 decimals; with previous absent or <= 0, or current
\* absent, it is the absence marker; it is never NaN and never infinite.
C5_GuardedPercentage ==
  probe.called =>
    \A r \in {probe.yoy, probe.lm} :
      /\ r.t \in {"none", "num"}
      /\ (IsNa(probe.previous) \/ LeZero(probe.previous) \/ IsNa(probe.current))
           => r = NoneV
      /\ (IsFinite(probe.previous) /\ probe.previous.n > 0 /\ IsFinite(probe.current))
           => IsRoundedPct(r, probe.current, probe.previous)
      /\ (~IsFinite(probe.previous) \/ ~IsFinite(probe.current)) => r = NoneV

\* C5 witness: (0.5 - 1.5) / 1.5 gives -66.67, and a call with previous = 0
\* gives the absence marker
C5_Witness ==
  /\ probe.called
  /\ probe.current = Num(50) /\ probe.previous = Num(150)
  /\ probe.lm = Num(0 - 6667) /\ probe.yoy = Num(0 - 6667)

\* the table went through the active path of the metrics engine
ActiveTable(df) ==
  ~is_section_empty(df, YearColumnList(df, identify_year_columns(df)))
\* the Month-rows of a table: neither skipped nor Total rows
MonthRowsOf(df) ==
  {i \in 1..Len(df.rows) : ~is_skip_row(df.rows[i]) /\ ~IsTotalRow(df.rows[i])}
\* the 2024 and 2025 values of a row, as numbers
Value2024(df, i) == ToNumeric(df.rows[i][identify_year_columns(df)["2024"]])
Value2025(df, i) == ToNumeric(df.rows[i][identify_year_columns(df)["2025"]])
YoyOf(df, i) == df.rows[i][identify_metric_columns(df).yoy]

\* C6: in an active table every Month-row's YOY is the absence marker unless
\* its 2024 value is a number > 0 and its 2025 value is a number, and is
\* then ((v2025 - v2024) / v2024) * 100 rounded to 2 decimals.
C6_MonthRowYoy ==
  (Computed /\ ActiveTable(calculated_metrics)) =>
    \A i \in MonthRowsOf(calculated_metrics) :
      LET v2024 == Value2024(calculated_metrics, i)
          v2025 == Value2025(calculated_metrics, i)
          yoy == YoyOf(calculated_metrics, i)
      IN  IF IsFinite(v2024) /\ v2024.n > 0 /\ IsFinite(v2025)
          THEN IsRoundedPct(yoy, v2025, v2024)
          ELSE yoy = NoneV

\* C6 witness: an active table with a Month-row holding 2024 = 0 and
\* 2025 = 100, whose YOY is the absence marker, next to a computed YOY
C6_Witness ==
  /\ Computed /\ ActiveTable(calculated_metrics)
  /\ \E i \in MonthRowsOf(calculated_metrics) :
       /\ Value2024(calculated_metrics, i) = N(0)
       /\ Value2025(calculated_metrics, i) = N(100)
       /\ YoyOf(calculated_metrics, i) = NoneV
  /\ \E i \in MonthRowsOf(calculated_metrics) : YoyOf(calculated_metrics, i) = N(0 - 10)

\* the sheet rows of the current section labelled % Change before the run
ChangeSheetRows == {r \in SectionRows : IsChangeLabel(Cell(input_file, r, 2))}
\* the % Change recompute of the current section applied to a sheet
Recompute(ws) ==
  write_percent_change_row(ws, calculated_metrics, section_info, input_file,
                           keeps_input_path)
\* some cell of the current section holds a partial-period percentage
HasPartialPct(ws) ==
  \E r \in SectionRows, c \in 3..19 :
    IsStr(Cell(ws, r, c)) /\ EndsWith(Cell(ws, r, c).s, w_till_Aug)

\* C8: the % Change recompute is idempotent: applied to the sheet a first
\* application left (same section, table and snapshot), it changes no
\* cell.  Stated on the sheet the writer left, and on the sheet as read.
C8_RecomputeIdempotent ==
  /\ pc = "increment_index" => Recompute(worksheet) = worksheet
  /\ pc = "summary_generator" =>
        Recompute(Recompute(worksheet)) = Recompute(worksheet)

\* C8 witness: the writer's recompute changed the % Change row and wrote a
\* partial-period percentage, and a second application changes nothing
C8_Witness ==
  /\ pc = "increment_index"
  /\ \E r \in ChangeSheetRows : worksheet[r] # input_file[r]
  /\ HasPartialPct(worksheet)
  /\ Recompute(worksheet) = worksheet

\* the sheet columns whose header of the current section is a bare year
YearSheetCols ==
  {c \in 3..19 :
     /\ Truthy(Cell(input_file, section_info.header_row, c))
     /\ IsSummedHeader(Lower(Str(Cell(input_file, section_info.header_row, c))))}
\* the sum of the numbers that column c holds in the rows lo..hi of the
\* input that are neither Total nor % Change rows
RECURSIVE MonthSum(_, _, _)
MonthSum(c, lo, hi) ==
  IF lo > hi THEN 0
  ELSE (IF /\ ~IsTotalLabel(Cell(input_file, lo, 2))
           /\ ~IsChangeLabel(Cell(input_file, lo, 2))
           /\ IsFinite(ToNumeric(Cell(input_file, lo, c)))
        THEN ToNumeric(Cell(input_file, lo, c)).n ELSE 0) + MonthSum(c, lo + 1, hi)
FewYears == Cardinality(ResolvedYears(calculated_metrics)) < 2

ScenarioYoy(i, v) ==
  calculated_metrics.rows[i][ColIndex(calculated_metrics, w_YOY_2024_2025)] = v
\* sheet columns D and E hold 2024 and 2025; rows 19 and 20 are the Total
\* and the % Change row
ScenarioTotalsWritten ==
  Cell(worksheet, 19, 4) = N(80) /\ Cell(worksheet, 19, 5) = N(80)
ZeroTillAug == Txt(<<"0", ".", "0", "0">> \o w_till_Aug)
\* the Total the recompute takes for the 2023 reference column: the Total
\* cell of the input file when the file is read again and the cell is
\* filled, else the sum of the table's 2023 column (Total row included)
ScenarioReferenceTotal ==
  LET total_cell == Cell(input_file, 19, 3)
      month_cell == Cell(input_file, 11, 3)
      n(v) == IF IsFinite(v) THEN v.n ELSE 0
  IN  IF keeps_input_path /\ ~IsNa(total_cell) THEN n(total_cell)
      ELSE 8 * n(month_cell) + n(total_cell)

ReservedWords == {p_month, p_total, p_pct_change}
RowRange(s) == s.header_row..s.data_end_row
ReservedCandidateRows ==
  {r \in 1..Len(input_file) :
     /\ Truthy(Cell(input_file, r, 2))
     /\ Lower(Strip(Str(Cell(input_file, r, 2)))) = p_month
     /\ Lower(Strip(Str(Cell(input_file, r, 1)))) \in ReservedWords}

\* C11: the scanner's section list is in strictly ascending header_row
\* order, the row ranges [header_row, data_end_row] of two distinct sections
\* share no row, and no section name, trimmed and lower-cased, is one of
\* month, total, % change.
C11_SectionsOrderedDisjointNamed ==
  Scanned =>
    \A i \in 1..Len(sections) :
      /\ Lower(Strip(sections[i].name)) \notin ReservedWords
      /\ \A j \in 1..Len(sections) :
           i < j => /\ sections[i].header_row < sections[j].header_row
                    /\ RowRange(sections[i]) \cap RowRange(sections[j]) = {}

\* two sections found on a sheet that also holds a candidate row named by a
\* reserved word
C11_Witness ==
  /\ Scanned
  /\ Len(sections) = 2
  /\ ReservedCandidateRows # {}

\* a blank cell: no value, or an empty text
IsBlank(v) == v.t = "none" \/ (v.t = "text" /\ v.s = <<>>)
ReadCols == 2..max_column
FullyBlank(r) == \A c \in ReadCols : IsBlank(Cell(worksheet, r, c))
DataRange(info) == info.data_start_row..info.data_end_row
\* the first fully blank row of the data range, or the row after the range
FirstBlankRow(info) ==
  SetMin({r \in DataRange(info) : FullyBlank(r)} \cup {info.data_end_row + 1})
\* the rows above the first fully blank row whose first field is filled and
\* is not a "% change" variant, in grid order
RowsAboveBlank(info) ==
  LET n == FirstBlankRow(info) - info.data_start_row
      Filled(r) == /\ ~IsBlank(Cell(worksheet, r, 2))
                   /\ ~IsPctChangeText(Cell(worksheet, r, 2))
  IN  SelectSeq([i \in 1..n |-> info.data_start_row + i - 1], Filled)
Extracted == pc = "metrics_calculator" /\ ~section_dataframe.none

\* C12: the Table holds no row at or after the first fully blank row of the
\* data range, and holds, in grid order, every row above it whose first
\* field is filled (the "% change" rows, which the extractor filters out,
\* excepted).
C12_StopsAtFirstBlankRow ==
  Extracted =>
    section_dataframe.rows =
      [i \in 1..Len(RowsAboveBlank(section_info)) |->
         RowData(worksheet, max_column, RowsAboveBlank(section_info)[i])]

\* the rows of the data range above its first fully blank row that are
\* labelled Total
TotalRowsAboveBlank(info) ==
  {r \in info.data_start_row..(FirstBlankRow(info) - 1) :
     /\ IsStr(Cell(worksheet, r, 2))
     /\ Lower(Strip(Cell(worksheet, r, 2).s)) = p_total}
NoChangeRowInTable ==
  \A i \in 1..Len(section_dataframe.rows) :
    ~IsPctChangeText(section_dataframe.rows[i][1])

\* C13: the Table returned by the extractor has no row whose first field is
\* a "% change" variant, and it has the section's Total row whenever that
\* row lies above the first fully blank row of the data range.
C13_NoChangeRowTotalKept ==
  Extracted =>
    /\ NoChangeRowInTable
    /\ \A r \in TotalRowsAboveBlank(section_info) :
         \E i \in 1..Len(section_dataframe.rows) :
           section_dataframe.rows[i] = RowData(worksheet, max_column, r)

\* the columns the header of the current section spans: B up to its last
\* filled header cell
SpanCols ==
  2..SetMax({c \in 2..GridCols : Truthy(Cell(input_file, section_info.header_row, c))})
\* the rows the % Change recompute of the current section locates
FoundTotalRow ==
  LastTotalRow(input_file, section_info.data_start_row, section_info.data_end_row)
FoundChangeRow ==
  LastChangeRow(input_file, section_info.data_start_row, section_info.data_end_row)
IsPercentText(v) == IsStr(v) /\ (EndsWith(v.s, w_pct) \/ EndsWith(v.s, w_till_Aug))
FreshChangeCell(c) ==
  LET v == Cell(worksheet, FoundChangeRow, c)
  IN  IsBlank(v) \/ (c = 2 /\ v = Txt(w_PctChange)) \/ IsPercentText(v)

\* C14: once the writer has run on a section whose Total row and % Change
\* row are both found, every cell of the % Change row across the columns of
\* the section is blank, the label "% Change", or a percentage text; none
\* keeps the value it held before the run.
C14_ChangeRowNeverStale ==
  (pc = "increment_index" /\ FoundTotalRow # 0 /\ FoundChangeRow # 0) =>
    \A c \in SpanCols : FreshChangeCell(c)

\* no YOY and no LM value exists in the table
NoMetricValue(df) ==
  \A i \in 1..Len(df.rows) : \A k \in MetricColumns(df) : IsNa(df.rows[i][k])
NoTrafficSentence == w_NoTraffic_pre \o section_name \o w_NoTraffic_post
GenericSentence == w_Generic_pre \o section_name \o w_Generic_post
\* this step is a narrative request that raised
RequestFailsNow ==
  /\ pc = "summary_generator"
  /\ Len(llm_errors') = Len(llm_errors) + 1
  /\ llm_errors'[Len(llm_errors')]

\* C15: a narrative request that raises does not abort the run: the step
\* ends with no error, the narrative is the no-measurable-traffic sentence
\* when the table has no YOY and no LM value and the generic sentence
\* otherwise, and the writer is the next step; after the writer the run goes
\* on to the index increment and so to the following sections.
C15_RequestFailureFallsBack ==
  [][/\ RequestFailsNow =>
          /\ pc' = "excel_writer" /\ err' = ""
          /\ summary_text' = IF NoMetricValue(calculated_metrics)
                              THEN NoTrafficSentence ELSE GenericSentence
     /\ (pc = "excel_writer" /\ llm_errors # <<>> /\ llm_errors[Len(llm_errors)]
          /\ pc' = "failed") => err' = "ValueError"
    ]_vars

\* a run of two sections whose first request raised on a table with metric
\* values and whose second raised on one without, and that went on to the
\* persist
C15_Witness ==
  /\ pc = "done" /\ saves = 1
  /\ Len(sections) = 2
  /\ llm_errors = <<TRUE, TRUE>>
  /\ summary_text = NoTrafficSentence
  /\ \E r \in 1..max_row, c \in 1..GridCols :
       Cell(worksheet, r, c) =
         Txt(w_Generic_pre \o sections[1].name \o w_Generic_post)

\* the nodes logged for the section with index idx
NodesOf(idx) == {log[k].node : k \in {j \in 1..Len(log) : log[j].idx = idx}}
\* every section found has been through the writer and the index increment
AllSectionsProcessed ==
  /\ current_section_index >= Len(sections)
  /\ \A i \in 1..Len(sections) :
       {"process_section", "metrics_calculator", "summary_generator",
        "excel_writer", "increment_index"} \subseteq NodesOf(i - 1)
PersistedOnceAtEnd ==
  /\ saves <= 1
  /\ saves = 1 => (pc = "done" /\ err = "" /\ AllSectionsProcessed)
  /\ err # "" => (saves = 0 /\ pc = "failed")

\* C16: the grid is persisted at most once per run, and only after every
\* section has been processed; a run that ended without error has persisted
\* exactly once; an error leaves the run failed (exit status 1) without a
\* persist.
C16_PersistOnceAfterAllSections ==
  /\ PersistedOnceAtEnd
  /\ pc = "done" => saves = 1

\* a run of two sections that has persisted
C16_Witness ==
  /\ pc = "done" /\ saves = 1
  /\ Len(sections) = 2
  /\ AllSectionsProcessed

\* the steps of one section, in the order of the graph's edges
SectionSteps ==
  <<"process_section", "metrics_calculator", "summary_generator", "excel_writer",
    "increment_index">>
\* the logged steps that belong to sections, in the order they ran
SectionLog ==
  LET IsSectionStep(e) == \E k \in 1..Len(SectionSteps) : e.node = SectionSteps[k]
  IN  SelectSeq(log, IsSectionStep)
InSectionSteps ==
  pc \in {"metrics_calculator", "summary_generator", "excel_writer", "increment_index"}

\* C17: sections are processed one at a time in discovery order: the k-th
\* section step of a run is step ((k-1) mod 5)+1 of extract, compute
\* metrics, narrative, write-back, increment, run on section (k-1) div 5
\* (so no step of a section starts before the write-back of the one before
\* has finished); the steps work on the section discovered at that position;
\* and when the run reaches the persist every section has been processed
\* exactly once.
C17_OneSectionAtATimeInOrder ==
  /\ \A k \in 1..Len(SectionLog) :
       /\ SectionLog[k].node = SectionSteps[((k - 1) % 5) + 1]
       /\ SectionLog[k].idx = (k - 1) \div 5
  /\ (InSectionSteps /\ pc # "increment_index" /\ sections # <<>>) =>
       /\ current_section_index < Len(sections)
       /\ section_info = sections[current_section_index + 1]
  /\ pc \in {"save", "done"} => Len(SectionLog) = 5 * Len(sections)

\* a three-section run at its end
C17_Witness ==
  /\ pc = "done"
  /\ Len(sections) = 3
  /\ Len(SectionLog) = 15

\* the table write-back of the writer applied to the sheet it is given
RowLoop ==
  WriteMetricRows(worksheet, calculated_metrics, section_info.data_start_row,
                  find_yoy_lm_columns(worksheet, max_column, section_info.header_row),
                  identify_metric_columns(calculated_metrics), 1).ws
TargetCols == find_yoy_lm_columns(worksheet, max_column, section_info.header_row)
TableCols == identify_metric_columns(calculated_metrics)
TargetRow(j) == section_info.data_start_row + j - 1
\* the table rows whose YOY (LM) value is absent and has a target cell
AbsentYoyRows ==
  {j \in 1..Len(calculated_metrics.rows) :
     TableCols.yoy # 0 /\ TargetCols.yoy # 0
     /\ IsNa(calculated_metrics.rows[j][TableCols.yoy])}
AbsentLmRows ==
  {j \in 1..Len(calculated_metrics.rows) :
     TableCols.lm # 0 /\ TargetCols.lm # 0
     /\ IsNa(calculated_metrics.rows[j][TableCols.lm])}

\* C18: the table write-back leaves the target YOY cell (row data_start_row
\* + row index, YOY column) of every table row whose YOY value is absent as
\* it was, neither blanked nor overwritten, and likewise the target LM cell
\* of every row whose LM value is absent.
C18_AbsentValueLeavesCell ==
  pc = "excel_writer" =>
    LET after == RowLoop
    IN  /\ \A j \in AbsentYoyRows :
             Cell(after, TargetRow(j), TargetCols.yoy)
               = Cell(worksheet, TargetRow(j), TargetCols.yoy)
        /\ \A j \in AbsentLmRows :
             Cell(after, TargetRow(j), TargetCols.lm)
               = Cell(worksheet, TargetRow(j), TargetCols.lm)

\* a row with an absent YOY value whose target cell holds 5 and keeps it,
\* while the write-back writes the YOY of another row
C18_Witness ==
  /\ pc = "excel_writer"
  /\ \E j \in AbsentYoyRows :
       /\ Cell(worksheet, TargetRow(j), TargetCols.yoy) = N(5)
       /\ Cell(RowLoop, TargetRow(j), TargetCols.yoy) = N(5)
  /\ RowLoop # worksheet

\* C19: a narrative that contains "upward" anywhere, in any case, gets the
\* upward colour, also when it contains "declined"; one that contains
\* "declined" and not "upward" gets the second colour; any other gets the
\* default colour.
C19_ColorByKeyword ==
  (pc = "idle" /\ probe.called) =>
    probe.color = IF Contains(Lower(probe.text), p_upward) THEN "00B050"
                  ELSE IF Contains(Lower(probe.text), p_declined) THEN "22577A"
                  ELSE "000000"

\* the Month-rows of a table that hold a number > 0 in the 2024 column and a
\* number in the 2025 column
ValidMonthRows(df) ==
  {i \in MonthRowsOf(df) :
     /\ identify_year_columns(df)["2024"] # 0
     /\ identify_year_columns(df)["2025"] # 0
     /\ IsFinite(Value2024(df, i)) /\ Value2024(df, i).n > 0
     /\ IsFinite(Value2025(df, i))}

\* C20: a table none of whose Month-rows holds a number > 0 for 2024
\* together with a value for 2025 is marked inactive by the metrics engine,
\* also when its Total row holds such values: the Total row does not count.
C20_OnlyMonthRowsActivate ==
  (Extracted /\ ValidMonthRows(section_dataframe) = {}) =>
    /\ ~ActiveTable(section_dataframe)
    /\ calculate_metrics(section_dataframe)
         = SetColumnNone(SetColumnNone(section_dataframe, w_YOY_pct), w_LM_pct)

\* ------------------------------------------------------------ C21 .. C30

\* ------------------------------------------------- month-order sheets
\* One section of three data rows under [Month, 2023, 2024, 2025, YOY, LM]:
\* the first row is January or February, the second February, a Total row
\* or December, the third March or December; the 2025 cells vary over
\* absent, zero and two positive numbers, and the 2024 cell of the rows
\* after the first is filled or absent.
FirstLabels == {t_January, t_February}
SecondLabels == {t_February, t_Total, t_December}
ThirdLabels == {t_March, t_December}
Cells2025Lm == {NoneV, N(0), N(10), N(20)}
LmSheet(l1, l2, l3, a, b, c, d) ==
  SheetOf(
    <<HeaderRow(t_Organic, HdrThreeYears),
      DataRow(HdrThreeYears, Txt(l1), Vals(N(10), N(10), a, NoneV, NoneV)),
      DataRow(HdrThreeYears, Txt(l2), Vals(N(10), d, b, NoneV, NoneV)),
      DataRow(HdrThreeYears, Txt(l3), Vals(N(10), d, c, NoneV, NoneV))>>)

InitLm ==
  \E l1 \in FirstLabels, l2 \in SecondLabels, l3 \in ThirdLabels,
     a \in Cells2025Lm, b \in Cells2025Lm, c \in Cells2025Lm, d \in {NoneV, N(8)} :
    InitWith(LmSheet(l1, l2, l3, a, b, c, d), TRUE)

SpecLm == InitLm /\ [][Next]_vars

\* the LM value the engine left in row i of a table
LmOf(df, i) == df.rows[i][identify_metric_columns(df).lm]
\* the Month-rows of a table whose first field is January
JanuaryRows(df) ==
  {i \in MonthRowsOf(df) : Contains(Lower(Str(df.rows[i][1])), p_january)}
\* the Month-rows of a table whose first field holds "december"
DecemberRows(df) ==
  {i \in MonthRowsOf(df) : Contains(Lower(Str(df.rows[i][1])), p_december)}
FirstMonthRow(df) == SetMin(MonthRowsOf(df))

\* C21: the row compared against the December row's 2024 value is the row
\* whose first field is January, whatever its position: a first Month-row
\* that is another month has no LM (it has no predecessor and is not
\* compared against December), and a January row's LM is the guarded
\* percentage against the December 2024 value, or the absence marker when
\* there is no December value.
C21_DecemberBaselineIsJanuary ==
  (Computed /\ ActiveTable(calculated_metrics)) =>
    LET df == calculated_metrics
        december == IF DecemberRows(df) = {} THEN NoneV
                    ELSE Value2024(df, SetMin(DecemberRows(df)))
    IN  /\ FirstMonthRow(df) \notin JanuaryRows(df) \cup {0} =>
             IsNa(LmOf(df, FirstMonthRow(df)))
        /\ \A i \in JanuaryRows(df) :
             LmOf(df, i) = calculate_lm_percentage(Value2025(df, i), december)

\* the Month-row that immediately precedes Month-row i in row order
PrecedingMonthRow(df, i) == SetMax({j \in MonthRowsOf(df) : j < i})

\* C22: in row order every Month-row after the first gets as LM the guarded
\* percentage of its own 2025 value against the 2025 value of the Month-row
\* immediately before it: the absence marker when that value is missing or
\* <= 0 (or its own is missing), ((cur - prev) / prev) * 100 rounded to 2
\* decimals otherwise.  A Total row between two Month-rows gets no LM and
\* does not become the previous value.
C22_LmChainsOverMonthRows ==
  (Computed /\ ActiveTable(calculated_metrics)) =>
    LET df == calculated_metrics
    IN  /\ \A i \in MonthRowsOf(df) \ {FirstMonthRow(df)} :
             LET cur == Value2025(df, i)
                 prev == Value2025(df, PrecedingMonthRow(df, i))
             IN  IF IsNa(cur) \/ IsNa(prev) \/ LeZero(prev)
                 THEN IsNa(LmOf(df, i))
                 ELSE IsRoundedPct(LmOf(df, i), cur, prev)
        /\ \A i \in 1..Len(df.rows) :
             (~is_skip_row(df.rows[i]) /\ IsTotalRow(df.rows[i])) => IsNa(LmOf(df, i))

\* C22 witness: January 10, a Total row holding 20, March 20: March's LM is
\* 100.00, taken against January across the Total row
C22_Witness ==
  /\ Computed /\ ActiveTable(calculated_metrics)
  /\ Len(calculated_metrics.rows) = 3
  /\ IsTotalRow(calculated_metrics.rows[2])
  /\ Value2025(calculated_metrics, 1) = N(10)
  /\ Value2025(calculated_metrics, 2) = N(20)
  /\ LmOf(calculated_metrics, 3) = N(100)

\* C22 witness of the guard: the preceding Month-row holds 0 and the row
\* after it gets no LM
C22_WitnessGuard ==
  /\ Computed /\ ActiveTable(calculated_metrics)
  /\ Len(calculated_metrics.rows) = 3
  /\ MonthRowsOf(calculated_metrics) = {1, 2, 3}
  /\ Value2025(calculated_metrics, 2) = N(0)
  /\ Value2025(calculated_metrics, 3) = N(10)
  /\ IsNa(LmOf(calculated_metrics, 3))

\* the year the % Change recompute reads in the header of sheet column c
ChangeYearOf(c) == ChangeYearOfHeader(Cell(input_file, section_info.header_row, c))
ChangeCols == {c \in 3..19 : ChangeYearOf(c) # "none"}
YearRank(y) == CASE y = "2023" -> 1 [] y = "2024" -> 2 [] y = "2025" -> 3 [] OTHER -> 0
\* the column of the lowest year (the reference), of the highest year, and
\* of the year next below the year of column c (0 when there is none)
ReferenceCol ==
  SetMin({c \in ChangeCols :
            \A d \in ChangeCols : YearRank(ChangeYearOf(c)) <= YearRank(ChangeYearOf(d))})
LatestCol ==
  SetMin({c \in ChangeCols :
            \A d \in ChangeCols : YearRank(ChangeYearOf(d)) <= YearRank(ChangeYearOf(c))})
PredecessorCol(c) ==
  LET lower == {d \in ChangeCols : YearRank(ChangeYearOf(d)) < YearRank(ChangeYearOf(c))}
  IN  SetMin({d \in lower :
                \A e \in lower : YearRank(ChangeYearOf(e)) <= YearRank(ChangeYearOf(d))})
ColOfChangeYear(y) == SetMin({c \in ChangeCols : ChangeYearOf(c) = y})
\* the first-eight-months sum of column c: the month rows above the Total row
PartialSum(c) ==
  IF c = 0 THEN 0 ELSE MonthSum(c, section_info.data_start_row, FoundTotalRow - 1)
\* the yearly Total the recompute takes for column c
TotalTaken(c) ==
  TotalValOf(input_file, keeps_input_path, calculated_metrics, FoundTotalRow,
             [col_idx |-> c, year |-> ChangeYearOf(c)])
\* the recompute reached its write step: 2 or more yearly Totals > 0 were
\* accepted and the reference year's is one of them
ReachedChangeWrite ==
  /\ pc = "increment_index" /\ FoundTotalRow # 0 /\ FoundChangeRow # 0
  /\ Cardinality({ChangeYearOf(c) : c \in {d \in ChangeCols : GtZero(TotalTaken(d))}}) >= 2
  /\ GtZero(TotalTaken(ReferenceCol))
PartialText(c, d) ==
  Txt(PctChangeText(Num(PartialSum(c)), Num(PartialSum(d))) \o w_till_Aug)
TotalText(c) ==
  IF GtZero(TotalTaken(c))
  THEN Txt(PctChangeText(TotalTaken(c), TotalTaken(ReferenceCol)) \o w_pct)
  ELSE NoneV

C23_WitnessBlank ==
  /\ ReachedChangeWrite
  /\ Cardinality(ChangeCols) = 3
  /\ PartialSum(ColOfChangeYear("2024")) > 0
  /\ PartialSum(ColOfChangeYear("2025")) = 0
  /\ IsNa(Cell(worksheet, FoundChangeRow, ColOfChangeYear("2025")))

\* the sheet the writer hands to the % Change recompute of the current
\* section: the metric rows and the Total row are written
SheetAtRecompute ==
  write_total_row(RowLoop, calculated_metrics, section_info)

\* C24: when the Total row or the % Change row of the section is not found
\* within the section bounds, the % Change recompute writes nothing: the
\* sheet it returns is the sheet it was given, cell for cell.
C24_MissingRowNoWrites ==
  (pc = "excel_writer" /\ (FoundTotalRow = 0 \/ FoundChangeRow = 0)) =>
    Recompute(SheetAtRecompute) = SheetAtRecompute

\* C24 witness: a % Change row holding stale cells is found, no Total row
\* is, and the recompute leaves the row as it is
C24_Witness ==
  /\ pc = "excel_writer"
  /\ FoundTotalRow = 0 /\ FoundChangeRow # 0
  /\ Cell(SheetAtRecompute, FoundChangeRow, 3) = N(3)
  /\ Recompute(SheetAtRecompute) = SheetAtRecompute

\* the sheet the % Change recompute of the current section returns
SheetAfterRecompute == Recompute(SheetAtRecompute)
\* the sheet columns whose header of the current section names YOY, or LM
HeaderNames(c, word) ==
  /\ Truthy(Cell(input_file, section_info.header_row, c))
  /\ Contains(Lower(Str(Cell(input_file, section_info.header_row, c))), word)
YoyHeaderCols == {c \in 3..GridCols : HeaderNames(c, p_yoy)}
LmHeaderCols == {c \in 3..GridCols : HeaderNames(c, p_lm)}
ReferenceCols == {c \in ChangeCols : ChangeYearOf(c) = ChangeYearOf(ReferenceCol)}
\* the conditions under which the recompute writes percentages
ChangeWriteAllowed ==
  /\ Cardinality({ChangeYearOf(c) : c \in {d \in ChangeCols : GtZero(TotalTaken(d))}}) >= 2
  /\ GtZero(TotalTaken(ReferenceCol))

\* C25: after a % Change recompute that passed its clearing step (Total row
\* and % Change row found), the % Change row is blank in the reference
\* (lowest) year column, blank under the YOY header and blank under the LM
\* header; a percentage stands only in a non-reference year column, and
\* only when 2 or more yearly Totals > 0 were accepted and the reference
\* year's Total is one of them.
C25_ReferenceAndMetricCellsBlank ==
  (pc = "excel_writer" /\ FoundTotalRow # 0 /\ FoundChangeRow # 0) =>
    /\ \A c \in ReferenceCols \cup YoyHeaderCols \cup LmHeaderCols :
         IsBlank(Cell(SheetAfterRecompute, FoundChangeRow, c))
    /\ \A c \in 3..GridCols :
         IsPercentText(Cell(SheetAfterRecompute, FoundChangeRow, c)) =>
           /\ c \in ChangeCols \ ReferenceCols
           /\ ChangeWriteAllowed

\* the sheet columns whose header of the current section denotes a bare
\* year: it names a year and is no YOY, LM or % Change column
BareYearCols ==
  {c \in 3..GridCols :
     /\ Truthy(Cell(input_file, section_info.header_row, c))
     /\ IsSummedHeader(Lower(Str(Cell(input_file, section_info.header_row, c))))
     /\ ~HeaderNames(c, p_pct_change)}
\* the rows of the current section that are neither Total nor % Change rows
MonthSheetRows ==
  {r \in SectionRows :
     ~IsTotalLabel(Cell(input_file, r, 2)) /\ ~IsChangeLabel(Cell(input_file, r, 2))}
\* the sum of the numeric values column c holds in those rows is finite
MonthSumFinite(c) ==
  \A r \in MonthSheetRows : ToNumeric(Cell(input_file, r, c)).t \notin {"inf", "ninf"}

\* C26: the Total-row recompute sets, in every bare-year column, the Total
\* row's cell to the rounded sum of the column's numeric month values (the
\* Total row excluded); when that sum is zero or not finite the cell keeps
\* its value; when no Total row is found nothing is written.
C26_TotalRowIsMonthSum ==
  pc = "excel_writer" =>
    LET total_row == FirstTotalRow(input_file, section_info.data_start_row,
                                   section_info.data_end_row)
        month_sum(c) == MonthSum(c, section_info.data_start_row, section_info.data_end_row)
    IN  IF total_row = 0 THEN SheetAtRecompute = RowLoop
        ELSE \A c \in BareYearCols :
               Cell(SheetAtRecompute, total_row, c) =
                 IF MonthSumFinite(c) /\ month_sum(c) # 0
                 THEN Round0(Num(month_sum(c)))
                 ELSE Cell(RowLoop, total_row, c)

\* the sheet rows the rows of the current table were extracted from, in
\* table order: the rows read (first field filled, above the row that ends
\* the reading) that are no % Change rows
OriginRows ==
  LET NotChangeRow(r) == ~IsPctChangeText(Cell(worksheet, r, 2))
  IN  SelectSeq(ReadRows(worksheet, max_column, section_info.data_start_row,
                         section_info.data_end_row),
                NotChangeRow)
\* the table rows that hold a YOY (LM) value and have a target column
ValuedYoyRows ==
  {j \in 1..Len(calculated_metrics.rows) :
     TableCols.yoy # 0 /\ TargetCols.yoy # 0
     /\ ~IsNa(calculated_metrics.rows[j][TableCols.yoy])}
ValuedLmRows ==
  {j \in 1..Len(calculated_metrics.rows) :
     TableCols.lm # 0 /\ TargetCols.lm # 0
     /\ ~IsNa(calculated_metrics.rows[j][TableCols.lm])}

\* C27: the write-back puts the YOY and the LM value of every table row
\* into the sheet row the table row was extracted from: the row it writes,
\* data_start_row + the row's index in the table, is that row, also when
\* rows above it were not retained or were dropped as % Change rows.
C27_WriteBackRowAligned ==
  (pc = "excel_writer" /\ Len(OriginRows) = Len(calculated_metrics.rows)) =>
    /\ \A j \in ValuedYoyRows \cup ValuedLmRows : TargetRow(j) = OriginRows[j]
    /\ \A j \in ValuedYoyRows :
         Cell(RowLoop, OriginRows[j], TargetCols.yoy)
           = format_percentage_for_excel(calculated_metrics.rows[j][TableCols.yoy])

\* the value the Total row of the current section holds in column c of the
\* sheet in memory
GridTotal(c) == ToNumeric(Cell(worksheet, FoundTotalRow, c))
\* a total-based percentage: a percentage text without the partial-period
\* annotation
IsTotalBasedText(v) == IsStr(v) /\ EndsWith(v.s, w_pct) /\ ~EndsWith(v.s, w_till_Aug)

\* C28: once the writer has finished a section, every total-based
\* percentage in the % Change row is the percentage of the values the Total
\* row holds in the sheet at that moment: ((Total_year - Total_reference) /
\* Total_reference) * 100 of the cells the Total-row recompute just wrote.
C28_ChangeFromWrittenTotals ==
  (pc = "increment_index" /\ FoundTotalRow # 0 /\ FoundChangeRow # 0) =>
    \A c \in ChangeCols \ ReferenceCols :
      IsTotalBasedText(Cell(worksheet, FoundChangeRow, c)) =>
        /\ GtZero(GridTotal(ReferenceCol))
        /\ Cell(worksheet, FoundChangeRow, c) =
             Txt(PctChangeText(GridTotal(c), GridTotal(ReferenceCol)) \o w_pct)

\* the sheet the writer leaves when it handles the current section
WriterSheet ==
  WriterResult(worksheet, max_column, calculated_metrics, section_info,
               summary_text, input_file, keeps_input_path).ws

\* C29: while the writer handles a section, every cell it changes lies in a
\* row between the section's header row and its data_end_row: the rows of
\* the other sections, and the rows outside every section, are as they
\* were, also when the section has no data rows or its table is empty.
C29_WritesStayInSection ==
  pc = "excel_writer" =>
    \A r \in DOMAIN worksheet :
      r \notin section_info.header_row..section_info.data_end_row =>
        WriterSheet[r] = worksheet[r]

\* ------------------------------------------------------- the step budget

\* main.py runs the graph with recursion_limit = 100: the harness counts
\* one step for every node it runs (the entries of log before the save) and
\* raises GraphRecursionError when the budget is used up before the end
\* state.  The exact step at which the library gives up is not part of this
\* repository: it is taken to lie within one step of the limit.
recursion_limit == 100
StepsTaken == Len(SelectSeq(log, LAMBDA e : e.node # "save"))
GraphNodes ==
  {"excel_reader", "section_detector", "process_section", "metrics_calculator",
   "summary_generator", "excel_writer", "increment_index"}

\* one node of the graph runs
GraphStep ==
  \/ ExcelReader
  \/ SectionDetector
  \/ ProcessSection
  \/ MetricsCalculator
  \/ SummaryGenerator
  \/ ExcelWriter
  \/ IncrementIndex

\* graph.invoke gives up: the exception reaches main, which exits with 1
\* and does not save
OutOfSteps ==
  /\ pc \in GraphNodes
  /\ StepsTaken >= recursion_limit - 1
  /\ pc' = "failed"
  /\ err' = "GraphRecursionError"
  /\ UNCHANGED <<probe, llm_errors, log, input_file, worksheet, max_row, max_column,
                 keeps_input_path, sections, current_section_index, section_name,
                 section_info, section_dataframe, calculated_metrics, summary_text,
                 saves>>

\* a node runs under the step budget, with a text service that answers no
\* request (every narrative is the fallback sentence)
BudgetStep ==
  /\ StepsTaken <= recursion_limit
  /\ GraphStep
  /\ \A i \in DOMAIN llm_errors' : llm_errors'[i]

NextBudget ==
  \/ BudgetStep
  \/ OutOfSteps
  \/ Save

\* sheets of n sections, each a header row and a January row
MaxSections == 20
BudgetSheet(n) ==
  SheetOf([r \in 1..(2 * n) |->
             IF r % 2 = 1
             THEN HeaderRow(IF r % 4 = 1 THEN t_Organic ELSE t_Paid, HdrThreeYears)
             ELSE DataRow(HdrThreeYears, Txt(t_January),
                          Vals(N(10), N(10), N(12), NoneV, NoneV))])

InitBudget == \E n \in 1..MaxSections : InitWith(BudgetSheet(n), FALSE)

SpecBudget == InitBudget /\ [][NextBudget]_vars

\* C30: for every number N >= 1 of detected sections the loop processes all
\* N sections and then reaches the end state and the one save: the step
\* budget never stops the run, and a run that reached the save has run the
\* writer on each of the N sections.
C30_LoopEndsWithinBudget ==
  /\ err # "GraphRecursionError"
  /\ (pc \in {"save", "done"} /\ Len(sections) >= 1) =>
        \A idx \in 0..(Len(sections) - 1) :
          \E k \in DOMAIN log : log[k] = [node |-> "excel_writer", idx |-> idx]

====
